---- MODULE Spec2Model ----
(***************************************************************************)
(* SlackSnap content script: the export pipeline of src/src/content.js.    *)
(* One export request is followed from the message listener through the   *)
(* API path (history pages, identifier collection, user lookups,          *)
(* enrichment, serialization, download) and the DOM fallback path.        *)
(* The Slack endpoints, the download sink and the page are the            *)
(* environment: every response is a nondeterministic choice.              *)
(***************************************************************************)
EXTENDS Integers, Sequences, FiniteSets, TLC

\* ---------------------------------------------------------------- bounds
MaxPages == 3        \* pages the history endpoint serves at most
MaxPageLen == 2      \* messages per served page at most
MaxDomCount == 2     \* message elements the page renders at most

\* ------------------------------------------------------- program constants
MaxAttempts == 3         \* while (!success && retryCount < 3)
RateLimitBase == 2000    \* Math.pow(2, retryCount) * 2000
ErrorBase == 1000        \* Math.pow(2, retryCount) * 1000
PageDelay == 1000        \* setTimeout(resolve, 1000) between pages
MaxScrolls == 20         \* for (let i = 0; i < 20; i++)
MaxNoNew == 3            \* if (noNewMessagesCount >= 3) break
HistoryLimit == 100      \* limit: '100' of conversations.history
DefaultHistoryDays == 7  \* config.historyDays || 7
BatchSize == 10          \* const batchSize = 10
LookupDelay == 100       \* setTimeout(resolve, 100) after a lookup
BatchDelay == 500        \* setTimeout(resolve, 500) between batches

UnknownUser == "Unknown User"

\* ------------------------------------------------------------ data shapes
W(s) == [kind |-> "word", v |-> s]
M(id) == [kind |-> "mention", v |-> id]

NoFields == [real_name |-> "", display_name |-> "", profile_real_name |-> "", name |-> ""]

\* The users.info records the workspace holds.
Directory(id) ==
  CASE id = "U1" -> [NoFields EXCEPT !.real_name = "Alice", !.name = "alice"]
    [] id = "U2" -> [NoFields EXCEPT !.name = "bob"]
    [] OTHER -> NoFields

\* A conversations.history / conversations.replies message with every optional
\* field absent (0, "" and <<>> stand for undefined).
RawMsg == [ts |-> 0, user |-> "", text |-> <<>>, blocks |-> <<>>, files |-> <<>>,
           thread_ts |-> 0, reply_count |-> 0, subtype |-> "", bot_id |-> "",
           username |-> "", topic |-> "", purpose |-> "", file |-> <<>>, comment |-> ""]

File == [name |-> "", title |-> "", url_private |-> "", permalink |-> "", mimetype |-> ""]
Elem == [type |-> "", text |-> <<>>, elements |-> <<>>, url |-> ""]
\* a section block carries block.text.text, a rich_text block carries elements
Block == [type |-> "section", text |-> <<>>, elements |-> <<>>]

\* Message timestamps are platform timestamps in whole seconds: T0 is
\* "1753160757" (2025-07-22 05:05:57 UTC), Ts(k) are instants 40000 s apart.
T0 == 1753160757
Ts(k) == T0 + (k - 6) * 40000

\* A broadcast thread reply: text mentions U2, a section block mentions U3.
mA == [RawMsg EXCEPT !.ts = Ts(3), !.user = "U1", !.text = <<W("hi"), M("U2")>>,
                     !.blocks = <<[Block EXCEPT !.text = <<W("cc"), M("U3")>>]>>, !.thread_ts = Ts(1)]
\* A thread parent with content of its own.
mB == [RawMsg EXCEPT !.ts = Ts(1), !.user = "U2", !.text = <<W("plan")>>,
                     !.thread_ts = Ts(1), !.reply_count = 2]
\* A thread parent whose own content is empty.
mD == [RawMsg EXCEPT !.ts = Ts(4), !.user = "U1", !.thread_ts = Ts(4), !.reply_count = 1]
\* Thread replies.
rB == [RawMsg EXCEPT !.ts = Ts(5), !.user = "U3", !.text = <<W("ok"), M("U1")>>, !.thread_ts = Ts(1)]
\* A thread reply none of whose fields the content extraction reads (its
\* payload is a legacy attachment).
rE == [RawMsg EXCEPT !.ts = Ts(2), !.user = "U3", !.thread_ts = Ts(1)]
rD == [RawMsg EXCEPT !.ts = Ts(6), !.user = "U2", !.text = <<W("yes")>>, !.thread_ts = Ts(4)]

Pool == {mA, mB, mD}

\* conversations.replies of a thread root: the root itself, then the replies.
ThreadOf(ts) ==
  CASE ts = Ts(1) -> <<mB, rE, rB>>
    [] ts = Ts(4) -> <<mD, rD>>
    [] OTHER -> <<>>

Range(s) == {s[i] : i \in 1..Len(s)}

\* Sequences of length 0..n of distinct elements of S.
RECURSIVE DistinctSeqs(_, _)
DistinctSeqs(S, n) ==
  IF n = 0 \/ S = {} THEN {<<>>}
  ELSE {<<>>} \cup UNION {{<<x>> \o t : t \in DistinctSeqs(S \ {x}, n - 1)} : x \in S}

RECURSIVE Pow2(_)
Pow2(n) == IF n = 0 THEN 1 ELSE 2 * Pow2(n - 1)

\* ------------------------------------------------------------ pure helpers
\* userMap[id] || dflt
MapGet(userMap, id, dflt) ==
  IF id \in DOMAIN userMap /\ userMap[id] # "" THEN userMap[id] ELSE dflt

DisplayName_handleFirst(u) ==
  IF u.name # "" THEN u.name
  ELSE IF u.real_name # "" THEN u.real_name
  ELSE IF u.display_name # "" THEN u.display_name
  ELSE IF u.profile_real_name # "" THEN u.profile_real_name
  ELSE UnknownUser

\* real_name || profile.display_name || profile.real_name || name || 'Unknown User'
DisplayName(u) ==
  IF u.real_name # "" THEN u.real_name
  ELSE IF u.display_name # "" THEN u.display_name
  ELSE IF u.profile_real_name # "" THEN u.profile_real_name
  ELSE IF u.name # "" THEN u.name
  ELSE UnknownUser

\* (text).match(/<@([A-Z0-9]+)>/g): the identifiers mentioned, in order
RECURSIVE MentionIds(_)
MentionIds(toks) ==
  IF toks = <<>> THEN <<>>
  ELSE (IF Head(toks).kind = "mention" THEN <<Head(toks).v>> ELSE <<>>) \o MentionIds(Tail(toks))

RECURSIVE AddAll_noDedup(_, _)
AddAll_noDedup(ids, new) ==
  IF new = <<>> THEN ids ELSE AddAll_noDedup(Append(ids, Head(new)), Tail(new))

\* Set.add over a sequence of identifiers, keeping insertion order
RECURSIVE AddAll(_, _)
AddAll(ids, new) ==
  IF new = <<>> THEN ids
  ELSE AddAll(IF Head(new) \in Range(ids) THEN ids ELSE Append(ids, Head(new)), Tail(new))

\* window.SlackSnapUtils.cleanText: decodes entities, leaves mention tokens
RECURSIVE cleanText(_)
cleanText(toks) ==
  IF toks = <<>> THEN <<>>
  ELSE LET t == Head(toks) IN
       <<IF t.kind = "word" /\ t.v = "&amp;" THEN W("&") ELSE t>> \o cleanText(Tail(toks))

\* text.replace(/<@([A-Z0-9]+)>/g, (_, id) => '@' + (userMap[id] || 'unknown'))
RECURSIVE ReplaceMentions(_, _)
ReplaceMentions(toks, userMap) ==
  IF toks = <<>> THEN <<>>
  ELSE LET t == Head(toks) IN
       <<IF t.kind = "mention" THEN "@" \o MapGet(userMap, t.v, "unknown") ELSE t.v>>
         \o ReplaceMentions(Tail(toks), userMap)

\* str.trim() is non-empty
NonBlank(strs) == \E i \in 1..Len(strs) : strs[i] \notin {"", " "}

\* a || b
Or2(a, b) == IF a # "" THEN a ELSE b

RECURSIVE extractBlockText(_, _)
RECURSIVE ListItems(_, _)
ListItems(items, userMap) ==
  IF items = <<>> THEN <<>>
  ELSE (IF Head(items).elements # <<>>
        THEN <<"* ">> \o extractBlockText(Head(items).elements, userMap) ELSE <<>>)
       \o ListItems(Tail(items), userMap)

extractBlockText(elements, userMap) ==
  IF elements = <<>> THEN <<>>
  ELSE LET e == Head(elements)
           part ==
             IF e.type = "text" /\ e.text # <<>>
               THEN ReplaceMentions(cleanText(e.text), userMap)
             ELSE IF e.type = "rich_text_section" /\ e.elements # <<>>
               THEN extractBlockText(e.elements, userMap)
             ELSE IF e.type = "rich_text_list" /\ e.elements # <<>>
               THEN ListItems(e.elements, userMap)
             ELSE IF e.type = "rich_text_quote" /\ e.elements # <<>>
               THEN <<"> ">> \o extractBlockText(e.elements, userMap)
             ELSE IF e.type = "rich_text_preformatted" /\ e.elements # <<>>
               THEN <<"(code)">> \o extractBlockText(e.elements, userMap) \o <<"(/code)">>
             ELSE IF e.type = "link" /\ e.url # ""
               THEN <<"[", (IF e.text # <<>> THEN e.text[1].v ELSE e.url), "](", e.url, ")">>
             ELSE IF e.text # <<>>
               THEN ReplaceMentions(cleanText(e.text), userMap)
             ELSE <<>>
       IN part \o extractBlockText(Tail(elements), userMap)

FileEntry_titleFirst(f) ==
  LET fileName == Or2(f.title, Or2(f.name, "Unnamed file"))
      fileUrl == Or2(f.url_private, f.permalink)
  IN (IF fileUrl # "" THEN <<"[", fileName, "](", fileUrl, ")">> ELSE <<fileName>>)
     \o (IF f.mimetype # "" THEN <<" (", f.mimetype, ")">> ELSE <<>>)

\* one entry of fileParts, as the pieces it is put together from
FileEntry(f) ==
  LET fileName == Or2(f.name, Or2(f.title, "Unnamed file"))
      fileUrl == Or2(f.url_private, f.permalink)
  IN (IF fileUrl # "" THEN <<"[", fileName, "](", fileUrl, ")">> ELSE <<fileName>>)
     \o (IF f.mimetype # "" THEN <<" (", f.mimetype, ")">> ELSE <<>>)

\* fileParts.join(', ')
RECURSIVE FileEntries(_)
FileEntries(fs) ==
  IF fs = <<>> THEN <<>>
  ELSE FileEntry(Head(fs)) \o (IF Tail(fs) = <<>> THEN <<>> ELSE <<", ">> \o FileEntries(Tail(fs)))

RECURSIVE BlockParts(_, _)
BlockParts(blocks, userMap) ==
  IF blocks = <<>> THEN <<>>
  ELSE LET b == Head(blocks)
           blockText ==
             IF b.type = "rich_text" /\ b.elements # <<>>
               THEN extractBlockText(b.elements, userMap)
             ELSE IF b.text # <<>> THEN ReplaceMentions(cleanText(b.text), userMap)
             ELSE <<>>
       IN (IF NonBlank(blockText) THEN <<blockText>> ELSE <<>>) \o BlockParts(Tail(blocks), userMap)

SubtypeParts(m) ==
  IF m.subtype = "file_share" /\ m.file # <<>>
    THEN << <<"Shared file: ", Or2(m.file[1].name, Or2(m.file[1].title, "Unnamed file"))>> >>
  ELSE IF m.subtype = "channel_join" THEN << <<"joined the channel">> >>
  ELSE IF m.subtype = "channel_leave" THEN << <<"left the channel">> >>
  ELSE IF m.subtype = "channel_topic" THEN << <<"Topic: ", m.topic>> >>
  ELSE IF m.subtype = "channel_purpose" THEN << <<"Purpose: ", m.purpose>> >>
  ELSE IF m.subtype = "pinned_item" THEN << <<"Pinned a message">> >>
  ELSE IF m.subtype = "file_comment" THEN << <<"Comment on file: ", m.comment>> >>
  ELSE <<>>

\* The content of a message: the sequence of its parts (joined by a blank
\* line in the source); <<>> is the empty string.
extractMessageContent(apiMsg, userMap) ==
  LET textPart ==
        IF apiMsg.text # <<>>
        THEN << ReplaceMentions(cleanText(apiMsg.text), userMap) >>
        ELSE <<>>
      filePart ==
        IF apiMsg.files # <<>> THEN << <<"Files: ">> \o FileEntries(apiMsg.files) >> ELSE <<>>
      parts == textPart \o filePart \o BlockParts(apiMsg.blocks, userMap) \o SubtypeParts(apiMsg)
  IN IF parts = <<>>
     THEN (IF apiMsg.subtype = "message_deleted" THEN << <<"[Message deleted]">> >> ELSE <<>>)
     ELSE parts

\* the blank line between two parts of a content string
BlankLine == "(blank line)"

RECURSIVE joinParts_trailing(_)
joinParts_trailing(parts) ==
  IF parts = <<>> THEN <<>> ELSE Head(parts) \o <<BlankLine>> \o joinParts_trailing(Tail(parts))

\* parts.join('\n\n'): the pieces of the parts, a blank line between two parts
RECURSIVE joinParts(_)
joinParts(parts) ==
  IF parts = <<>> THEN <<>>
  ELSE Head(parts) \o (IF Tail(parts) = <<>> THEN <<>> ELSE <<BlankLine>> \o joinParts(Tail(parts)))

\* the string extractMessageContent returns
contentString(apiMsg, userMap) == joinParts(extractMessageContent(apiMsg, userMap))

\* content && content.trim()
HasContent(content) == \E i \in 1..Len(content) : NonBlank(content[i])


InsertByTs_append(sorted, x) == Append(sorted, x)

\* ---------------------------------------------------------- dates and times
VARIABLE clock   \* the browser's wall clock: now (unix seconds) and UTC offset (seconds)

Months == <<"Jan", "Feb", "Mar", "Apr", "May", "Jun", "Jul", "Aug", "Sep", "Oct", "Nov", "Dec">>
Weekdays == <<"Sunday", "Monday", "Tuesday", "Wednesday", "Thursday", "Friday", "Saturday">>

\* the number of the local calendar day an instant falls on (days since 1970-01-01)
LocalDay(secs) == (secs + clock.offset) \div 86400

\* the local calendar fields of a Date: getFullYear, getMonth() + 1, getDate,
\* getDay, getHours, getMinutes, getSeconds (proleptic Gregorian calendar)
LocalFields(secs) ==
  LET rem == (secs + clock.offset) % 86400
      z == LocalDay(secs) + 719468
      era == z \div 146097
      doe == z % 146097
      yoe == (doe - doe \div 1460 + doe \div 36524 - doe \div 146096) \div 365
      doy == doe - (365 * yoe + yoe \div 4 - yoe \div 100)
      mp == (5 * doy + 2) \div 153
      m == IF mp < 10 THEN mp + 3 ELSE mp - 9
  IN [year |-> yoe + era * 400 + (IF m <= 2 THEN 1 ELSE 0),
      month |-> m,
      date |-> doy - (153 * mp + 2) \div 5 + 1,
      day |-> (LocalDay(secs) + 4) % 7,
      hours |-> rem \div 3600,
      minutes |-> (rem % 3600) \div 60,
      seconds |-> rem % 60]

\* A timestamp string: kind says how it is written, secs the instant it
\* denotes, text what it reads when it denotes none.
\*   "unix"       ten digits, optionally a fraction: "1753160757.123400"
\*   "iso"        an ISO date-time with a T
\*   "permalink"  p and ten digits or more
\*   "relative"   a string with a day word in it: "Yesterday 05:00 AM"
\*   "other"      any other string no Date parses out of
Stamp(kind, secs, text) == [kind |-> kind, secs |-> secs, text |-> text]
UnixStamp(ts) == Stamp("unix", ts, "")

hours12_zero(hours) == hours % 12

\* hours = hours % 12; hours = hours ? hours : 12
hours12(hours) == IF hours % 12 = 0 THEN 12 ELSE hours % 12

\* "h:mm AM/PM": the hour, the two digits of the minutes, AM or PM
TimeStr(f) ==
  <<hours12(f.hours), f.minutes \div 10, f.minutes % 10, IF f.hours >= 12 THEN "PM" ELSE "AM">>

\* the relative-day rendering: compares the message's calendar day with today
formatTimestamp_relative(timestamp) ==
  IF timestamp.kind \notin {"unix", "iso", "permalink"} THEN timestamp
  ELSE LET f == LocalFields(timestamp.secs)
           diffDays == LocalDay(clock.now) - LocalDay(timestamp.secs)
       IN [dateStr |-> IF diffDays = 0 THEN <<"Today">>
                       ELSE IF diffDays = 1 THEN <<"Yesterday">>
                       ELSE IF diffDays < 7 THEN <<Weekdays[f.day + 1]>>
                       ELSE IF f.year # LocalFields(clock.now).year
                            THEN <<Months[f.month], f.date, f.year>>
                            ELSE <<Months[f.month], f.date>>,
           timeStr |-> TimeStr(f)]

\* formatTimestamp: a string with a day word and a string no Date parses out
\* of are returned as they are; every other timestamp is rendered as
\* "Mon D, YYYY h:mm AM/PM" in local time
formatTimestamp(timestamp) ==
  IF timestamp.kind = "relative" THEN timestamp
  ELSE IF timestamp.kind \notin {"unix", "iso", "permalink"} THEN timestamp
  ELSE LET f == LocalFields(timestamp.secs)
       IN [dateStr |-> <<Months[f.month], f.date, f.year>>, timeStr |-> TimeStr(f)]

\* stable insertion of x into a sequence sorted by key
RECURSIVE InsertByTs(_, _)
InsertByTs(sorted, x) ==
  IF sorted = <<>> THEN <<x>>
  ELSE IF x.timestamp < sorted[Len(sorted)].timestamp
       THEN Append(InsertByTs(SubSeq(sorted, 1, Len(sorted) - 1), x), sorted[Len(sorted)])
       ELSE Append(sorted, x)

\* .sort((a, b) => parseFloat(a.timestamp) - parseFloat(b.timestamp)), stable
RECURSIVE SortByTs(_)
SortByTs(msgs) ==
  IF msgs = <<>> THEN <<>>
  ELSE InsertByTs(SortByTs(SubSeq(msgs, 1, Len(msgs) - 1)), msgs[Len(msgs)])

RECURSIVE FilterContent_needsReplies(_)
FilterContent_needsReplies(msgs) ==
  IF msgs = <<>> THEN <<>>
  ELSE (IF HasContent(Head(msgs).content) /\ Head(msgs).threadReplies # <<>>
        THEN <<Head(msgs)>> ELSE <<>>) \o FilterContent_needsReplies(Tail(msgs))

FilterContent_all(msgs) == msgs

\* .filter(msg => msg.content && msg.content.trim())
RECURSIVE FilterContent(_)
FilterContent(msgs) ==
  IF msgs = <<>> THEN <<>>
  ELSE (IF HasContent(Head(msgs).content) THEN <<Head(msgs)>> ELSE <<>>) \o FilterContent(Tail(msgs))

\* The lines of the reply loop.  A reply writes its bullet ("  * **sender**: ")
\* if it has a sender, and its content and the newline only if it has
\* content; bullets are the senders of the bullets written on the line so
\* far.  The newline written after the loop ends a line left open.
RECURSIVE ReplyLinesFrom(_, _)
ReplyLinesFrom(replies, bullets) ==
  IF replies = <<>>
  THEN (IF bullets = <<>> THEN <<>> ELSE <<[k |-> "reply", bullets |-> bullets, content |-> <<>>]>>)
  ELSE LET r == Head(replies)
           b == IF r.sender # "" THEN Append(bullets, r.sender) ELSE bullets
       IN IF r.content # <<>>
          THEN <<[k |-> "reply", bullets |-> b, content |-> r.content]>>
               \o ReplyLinesFrom(Tail(replies), <<>>)
          ELSE ReplyLinesFrom(Tail(replies), b)

ReplyLines(replies) == ReplyLinesFrom(replies, <<>>)

RECURSIVE MessageLines(_, _)
MessageLines(messages, cfg) ==
  IF messages = <<>> THEN <<>>
  ELSE LET m == Head(messages) IN
       (IF m.sender # ""
        THEN <<[k |-> "sender", sender |-> m.sender,
                time |-> IF cfg.includeTimestamps /\ m.timestamp # 0
                         THEN formatTimestamp(UnixStamp(m.timestamp)) ELSE <<>>]>>
        ELSE <<>>)
       \o (IF m.content # <<>> THEN <<[k |-> "content", content |-> m.content]>> ELSE <<>>)
       \o (IF cfg.includeThreadReplies /\ Len(m.threadReplies) > 0
           THEN <<[k |-> "label"]>> \o ReplyLines(m.threadReplies) ELSE <<>>)
       \o MessageLines(Tail(messages), cfg)

\* The document: the header with the channel name and the export time
\* (now.toLocaleString()), then the lines of each message in order.
convertToMarkdown(messages, channelName, cfg) ==
  <<[k |-> "header", channel |-> channelName, exportTime |-> LocalFields(clock.now)]>>
    \o MessageLines(messages, cfg)

\* sender of an enriched message
SenderOf(apiMsg, userMap) ==
  IF apiMsg.user # "" THEN MapGet(userMap, apiMsg.user, UnknownUser)
  ELSE IF apiMsg.subtype = "bot_message" /\ apiMsg.bot_id # "" THEN Or2(apiMsg.username, "Bot")
  ELSE IF apiMsg.subtype # "" THEN "System"
  ELSE UnknownUser

\* the identifiers one raw message contributes: its sender, then its text mentions
IdsOf(msg) == (IF msg.user # "" THEN <<msg.user>> ELSE <<>>) \o MentionIds(msg.text)

RECURSIVE IdsOfAll(_)
IdsOfAll(msgs) == IF msgs = <<>> THEN <<>> ELSE IdsOf(Head(msgs)) \o IdsOfAll(Tail(msgs))

WantsThread_noCount(cfg, msg) == cfg.includeThreadReplies /\ msg.thread_ts # 0

\* config.includeThreadReplies && msg.thread_ts && msg.reply_count > 0
WantsThread(cfg, msg) == cfg.includeThreadReplies /\ msg.thread_ts # 0 /\ msg.reply_count > 0

fetchThreadReplies_cached(threadTs, outcome) == ThreadOf(threadTs)

\* fetchThreadReplies: data.messages on an ok response, [] on any error
ThreadOutcomes == {"ok", "api_error", "network_error"}
fetchThreadReplies(threadTs, outcome) == IF outcome = "ok" THEN ThreadOf(threadTs) ELSE <<>>

\* const replySender = userMap[reply.user] || 'Unknown User'
ReplySenderOf(reply, userMap) == MapGet(userMap, reply.user, UnknownUser)

\* the reply records of one parent (the root itself is skipped)
RECURSIVE EnrichReplies(_, _, _)
EnrichReplies(repliesRaw, threadTs, userMap) ==
  IF repliesRaw = <<>> THEN <<>>
  ELSE LET r == Head(repliesRaw) IN
       (IF r.ts = threadTs THEN <<>>
        ELSE <<[sender |-> ReplySenderOf(r, userMap),
                content |-> extractMessageContent(r, userMap), timestamp |-> r.ts]>>)
       \o EnrichReplies(Tail(repliesRaw), threadTs, userMap)

EmptyMap == [x \in {} |-> ""]
MapPut(f, id, v) == [x \in DOMAIN f \cup {id} |-> IF x = id THEN v ELSE f[x]]

RECURSIVE Concat(_)
Concat(pages) == IF pages = <<>> THEN <<>> ELSE Head(pages) \o Concat(Tail(pages))


\* ------------------------------------------------------------------ state
VARIABLES
  pc,            \* position of the export in the listener's promise chain
  req,           \* action of the request being handled
  channelId,     \* channel the API pipeline exports
  session,       \* token and lower time bound exportChannelViaAPI holds
  utils,         \* window.SlackSnapUtils is defined
  urlChannel,    \* what getCurrentChannelId finds in the page path ("" is null)
  hasToken,      \* localStorage holds a team token
  config,        \* the record getConfig resolves to
  apiError,      \* message of the error that ended the API pipeline
  domError,      \* message of the error that ended the DOM pipeline
  responses,     \* sendResponse calls made for the request
  downloads,     \* DOWNLOAD_FILE requests sent
  sinkResult,    \* what the download sink answered
  allMessages, cursor, hasMore, pageCount, retryCount,   \* getMessagesViaHistoryAPI
  histRequests,  \* conversations.history requests issued by the running fetch
  histFailures,  \* how many of them failed
  pageLog,       \* the requests issued for the page fetched last
  servedPages,   \* pages the endpoint served to the running fetch
  histFailed,    \* the fetch raised
  apiMessages,   \* what the fetch returned
  userIds, ci,   \* identifier collection pass
  threadLog,     \* conversations.replies requests issued
  userMap, remainingUserIds, ui, lookupLog,   \* fetchSpecificUsers
  enrichedMessages, ei,    \* enrichment pass
  result,        \* what exportChannelViaAPI returned
  scrollI, previousCount, noNewMessagesCount,   \* exportMessages scroll loop
  domMessages,   \* what extractVisibleMessages returned
  probe,         \* the function applied on its own and its arguments
  runs,          \* what the applications returned, in order
  procs          \* the export runs the listener has started, by arrival number

envVars == <<utils, urlChannel, hasToken, config>>
orchVars == <<pc, req, channelId, apiError, domError, responses, downloads, sinkResult>>
histVars == <<allMessages, cursor, hasMore, pageCount, retryCount,
              histRequests, histFailures, pageLog,
              servedPages, histFailed, apiMessages>>
collectVars == <<userIds, ci, threadLog>>
resolveVars == <<userMap, remainingUserIds, ui, lookupLog>>
enrichVars == <<enrichedMessages, ei, result>>
domVars == <<scrollI, previousCount, noNewMessagesCount, domMessages>>
exportVars == <<envVars, session, orchVars, histVars, collectVars, resolveVars, enrichVars, domVars>>
auxVars == <<clock, probe, runs, procs>>
vars == <<exportVars, auxVars>>

NoResult == [messageCount |-> -1, markdown |-> <<>>]
TypeErrorMsg == "Cannot read properties of undefined"
NoChannelMsg == "Could not determine channel ID"
NoTokenMsg == "No authentication token found"
RetriesMsg == "Failed to fetch message page after 3 retries"
HistoryApiMsg == "conversations.history API failed"
NetworkMsg == "Failed to fetch"
DownloadMsg == "All download methods failed"

\* the wall clock during an export, shortly after the newest message
ExportClock == [now |-> T0 + 4000, offset |-> 0]
NoProbe == [fn |-> "none", arg |-> <<>>]

\* the token localStorage holds for the team, and no token read yet
TeamToken == "xoxc-team"
NoSession == [token |-> "", oldest |-> 0]

AuxInit == clock = ExportClock /\ probe = NoProbe /\ runs = <<>> /\ procs = <<>>

ExportInit ==
  /\ pc = "idle" /\ req = "none" /\ channelId = "" /\ session = NoSession
  /\ utils \in BOOLEAN
  /\ urlChannel \in {"", "C1"}
  /\ hasToken \in BOOLEAN
  /\ config \in [includeThreadReplies : BOOLEAN, includeTimestamps : BOOLEAN]
  /\ apiError = "" /\ domError = ""
  /\ responses = <<>> /\ downloads = <<>> /\ sinkResult = "none"
  /\ allMessages = <<>> /\ cursor = 0 /\ hasMore = TRUE /\ pageCount = 0 /\ retryCount = 0
  /\ histRequests = 0 /\ histFailures = 0 /\ pageLog = <<>> /\ servedPages = <<>>
  /\ histFailed = FALSE /\ apiMessages = <<>>
  /\ userIds = <<>> /\ ci = 1 /\ threadLog = <<>>
  /\ userMap = EmptyMap /\ remainingUserIds = <<>> /\ ui = 1 /\ lookupLog = <<>>
  /\ enrichedMessages = <<>> /\ ei = 1 /\ result = NoResult
  /\ scrollI = 0 /\ previousCount = 0 /\ noNewMessagesCount = 0 /\ domMessages = <<>>

Init == ExportInit /\ AuxInit

\* ---------------------------------------------------------------- listener
Respond_silent(r) == UNCHANGED responses
Respond(r) == responses' = Append(responses, r)
OkResponse(method) == [success |-> TRUE, method |-> method, error |-> ""]
FailResponse(msg) == [success |-> FALSE, method |-> "", error |-> msg]

\* a fatal error after which the promise of either request resolves
ApiFail_resolves(msg) ==
  /\ apiError' = msg
  /\ pc' = "done"
  /\ Respond(OkResponse(IF req = "EXPORT_MESSAGES" THEN "API" ELSE "BATCH"))

\* A fatal error of the API pipeline.  Under EXPORT_MESSAGES it is caught by
\* the catch block of exportMessagesViaAPI, which shows a notification and
\* lets the promise resolve, so the listener's then-branch answers; under
\* BATCH_EXPORT_CHANNEL the promise rejects and the catch-branch answers.
ApiFail(msg) ==
  /\ apiError' = msg
  /\ pc' = "done"
  /\ Respond(IF req = "EXPORT_MESSAGES" THEN OkResponse("API") ELSE FailResponse(msg))

\* the utilities script finishes loading
LoadUtils ==
  /\ ~utils
  /\ utils' = TRUE
  /\ UNCHANGED <<urlChannel, hasToken, config, session, orchVars, histVars, collectVars,
                 resolveVars, enrichVars, domVars>>
  /\ UNCHANGED auxVars

ReceiveExportMessages ==
  /\ pc = "idle"
  /\ req' = "EXPORT_MESSAGES"
  /\ pc' = "api_start"
  /\ UNCHANGED <<envVars, session, channelId, apiError, domError, responses, downloads, sinkResult,
                 histVars, collectVars, resolveVars, enrichVars, domVars>>
  /\ UNCHANGED auxVars

ReceiveBatchExportChannel ==
  /\ pc = "idle"
  /\ req' = "BATCH_EXPORT_CHANNEL"
  /\ channelId' = "C2"
  /\ pc' = "chan_start"
  /\ UNCHANGED <<envVars, session, apiError, domError, responses, downloads, sinkResult,
                 histVars, collectVars, resolveVars, enrichVars, domVars>>
  /\ UNCHANGED auxVars

\* window.location.pathname as its segments: "/client/T1/C1" is
\* <<"client", "T1", "C1">>, and "//" gives an empty segment.
\* const urlPatterns = [...]: the segment that opens each pattern and how many
\* segments lie between it and the captured one
urlPatterns_archivesFirst ==
  <<[key |-> "archives", skip |-> 0], [key |-> "messages", skip |-> 0],
    [key |-> "channels", skip |-> 0], [key |-> "client", skip |-> 1]>>
urlPatterns ==
  <<[key |-> "messages", skip |-> 0], [key |-> "archives", skip |-> 0],
    [key |-> "channels", skip |-> 0], [key |-> "client", skip |-> 1]>>

\* the pattern matches with its opening segment at position i: every segment
\* up to the captured one is there and is not empty ([^\/\?]+)
MatchesAt(path, pattern, i) ==
  /\ path[i] = pattern.key
  /\ i + 1 + pattern.skip <= Len(path)
  /\ \A j \in (i + 1)..(i + 1 + pattern.skip) : path[j] # ""

\* pathname.match(pattern): match[1] of the leftmost match, "" for no match
MatchPattern(path, pattern) ==
  LET at == {i \in 1..Len(path) : MatchesAt(path, pattern, i)} IN
  IF at = {} THEN ""
  ELSE path[(CHOOSE i \in at : \A j \in at : i <= j) + 1 + pattern.skip]

\* for (const pattern of urlPatterns) { ... if (match) return match[1] } return null
RECURSIVE FirstMatch(_, _)
FirstMatch(path, patterns) ==
  IF patterns = <<>> THEN ""
  ELSE IF MatchPattern(path, Head(patterns)) # "" THEN MatchPattern(path, Head(patterns))
       ELSE FirstMatch(path, Tail(patterns))

getCurrentChannelId(path) == FirstMatch(path, urlPatterns)

MaxSegments == 3     \* segments of the page path at most
Segments == {"messages", "archives", "channels", "client", "C1", ""}
PathInputs == UNION {[1..n -> Segments] : n \in 0..MaxSegments}

\* the user opens another page of the workspace before asking for an export
Navigate ==
  /\ pc = "idle"
  /\ probe.fn = "none"
  /\ \E path \in PathInputs :
       /\ probe' = [fn |-> "pathname", arg |-> path]
       /\ urlChannel' = getCurrentChannelId(path)
  /\ UNCHANGED <<utils, hasToken, config, session, orchVars, histVars, collectVars,
                 resolveVars, enrichVars, domVars>>
  /\ UNCHANGED <<clock, runs, procs>>

\* exportMessagesViaAPI up to the call of exportChannelViaAPI
ApiStart ==
  /\ pc = "api_start"
  /\ IF ~utils
     THEN \* showNotification throws in the try block and again in the catch block
          /\ apiError' = TypeErrorMsg
          /\ pc' = "dom_start"
          /\ UNCHANGED <<channelId, responses>>
     ELSE IF urlChannel = ""
     THEN ApiFail(NoChannelMsg) /\ UNCHANGED channelId
     ELSE /\ channelId' = urlChannel
          /\ pc' = "chan_start"
          /\ UNCHANGED <<apiError, responses>>
  /\ UNCHANGED <<envVars, session, req, domError, downloads, sinkResult,
                 histVars, collectVars, resolveVars, enrichVars, domVars>>
  /\ UNCHANGED auxVars

\* the lower time bound of the export window, in seconds:
\* Math.floor((Date.now() - (config.historyDays || 7) * 86400 * 1000) / 1000)
oldestUnix == clock.now - DefaultHistoryDays * 86400

\* exportChannelViaAPI up to the call of getMessagesViaHistoryAPI
ChannelStart ==
  /\ pc = "chan_start"
  /\ IF ~hasToken
     THEN ApiFail(NoTokenMsg) /\ UNCHANGED <<pageCount, hasMore, session>>
     ELSE /\ pc' = "history"
          /\ pageCount' = 1
          /\ hasMore' = TRUE
          /\ session' = [token |-> TeamToken, oldest |-> oldestUnix]
          /\ UNCHANGED <<apiError, responses>>
  /\ UNCHANGED <<envVars, req, channelId, domError, downloads, sinkResult,
                 allMessages, cursor, retryCount, histRequests, histFailures, pageLog,
                 servedPages, histFailed, apiMessages,
                 collectVars, resolveVars, enrichVars, domVars>>
  /\ UNCHANGED auxVars

\* ----------------------------------------------------- getMessagesViaHistoryAPI
HistoryOutcomes == {"ok", "ratelimited", "api_error", "network_error"}

Served == Range(Concat(servedPages))

concatPage_overwrite(all, pageMessages) == pageMessages

concatPage_twice(all, pageMessages) == all \o pageMessages \o pageMessages

\* allMessages.concat(pageMessages)
concatPage(all, pageMessages) == all \o pageMessages

nextCursor_stale(more, page) == 0

\* cursor = data.response_metadata?.next_cursor || '': the cursor an ok
\* response for a page carries is the number of that page, no cursor is 0
nextCursor(more, page) == IF more THEN page ELSE 0

Backoff_sameForAll(rc, base) == Pow2(rc) * ErrorBase

\* Math.pow(2, retryCount) * base
Backoff(rc, base) == Pow2(rc) * base

pacingDelay_always(page, retry) == PageDelay

\* if (pageCount > 1) await setTimeout(1000): slept once per page, before the
\* page's parameters are built and its first attempt is made
pacingDelay(page, retry) == IF page > 1 /\ retry = 0 THEN PageDelay ELSE 0

\* the record of one request: the page and cursor it asked for, the pacing
\* delay slept before it, its outcome and the backoff delay slept after it
LogEntry(outcome, wait) ==
  [page |-> pageCount, cursor |-> cursor, outcome |-> outcome, wait |-> wait,
   pre |-> pacingDelay(pageCount, retryCount),
   token |-> session.token, channel |-> channelId, oldest |-> session.oldest,
   limit |-> HistoryLimit]

\* the log of the current page: a page's first request starts it afresh
Logged(entry) == IF retryCount = 0 THEN <<entry>> ELSE Append(pageLog, entry)

HistoryFail_partial(msg) ==
  /\ pc' = "history_return"
  /\ histFailed' = TRUE
  /\ UNCHANGED <<apiError, responses>>

\* the fetch gives up: the error propagates out of getMessagesViaHistoryAPI
\* and out of exportChannelViaAPI
HistoryFail(msg) ==
  /\ ApiFail(msg)
  /\ histFailed' = TRUE

\* One iteration of the retry loop: a conversations.history request for the
\* current page and the handling of its response.
HistoryAttempt(outcome) ==
  /\ pc = "history"
  /\ hasMore /\ retryCount < MaxAttempts
  /\ histRequests' = histRequests + 1
  /\ histFailures' = IF outcome = "ok" THEN histFailures ELSE histFailures + 1
  /\ CASE outcome = "ok" ->
            \E pageMessages \in DistinctSeqs(Pool \ Served, MaxPageLen) :
            \E more \in (IF pageCount < MaxPages THEN BOOLEAN ELSE {FALSE}) :
              /\ allMessages' = concatPage(allMessages, pageMessages)
              /\ servedPages' = Append(servedPages, pageMessages)
              /\ hasMore' = more
              /\ cursor' = nextCursor(more, pageCount)
              /\ pageLog' = Logged(LogEntry(outcome, 0))
              /\ IF more
                 THEN /\ pageCount' = pageCount + 1
                      /\ retryCount' = 0
                      /\ pc' = "history"
                 ELSE /\ pc' = "history_return"
                      /\ UNCHANGED <<pageCount, retryCount>>
              /\ UNCHANGED <<apiError, responses, histFailed>>
       [] outcome = "ratelimited" ->
            /\ retryCount' = retryCount + 1
            /\ pageLog' = Logged(LogEntry(outcome, Backoff(retryCount + 1, RateLimitBase)))
            /\ IF retryCount + 1 < MaxAttempts
               THEN pc' = "history" /\ UNCHANGED <<apiError, responses, histFailed>>
               ELSE HistoryFail(RetriesMsg)
            /\ UNCHANGED <<allMessages, servedPages, hasMore, cursor, pageCount>>
       [] OTHER ->
            /\ retryCount' = retryCount + 1
            /\ IF retryCount + 1 >= MaxAttempts
               THEN /\ HistoryFail(IF outcome = "api_error" THEN HistoryApiMsg ELSE NetworkMsg)
                    /\ pageLog' = Logged(LogEntry(outcome, 0))
               ELSE /\ pageLog' = Logged(LogEntry(outcome, Backoff(retryCount + 1, ErrorBase)))
                    /\ pc' = "history"
                    /\ UNCHANGED <<apiError, responses, histFailed>>
            /\ UNCHANGED <<allMessages, servedPages, hasMore, cursor, pageCount>>
  /\ UNCHANGED <<envVars, session, req, channelId, domError, downloads, sinkResult, apiMessages,
                 collectVars, resolveVars, enrichVars, domVars>>
  /\ UNCHANGED auxVars

\* What the caller of exportChannelViaAPI does with its result.
\* EXPORT_MESSAGES: nothing to export resolves at once; otherwise the
\* DOWNLOAD_FILE request is sent with a callback and the promise resolves
\* without waiting for the sink.  BATCH_EXPORT_CHANNEL: the result is the answer.
Deliver(res) ==
  /\ result' = res
  /\ pc' = "done"
  /\ IF req = "EXPORT_MESSAGES"
     THEN /\ Respond(OkResponse("API"))
          /\ IF res.messageCount = 0
             THEN UNCHANGED <<downloads, sinkResult>>
             ELSE /\ downloads' = Append(downloads, [source |-> "API", content |-> res.markdown])
                  /\ sinkResult' = "pending"
     ELSE /\ Respond(OkResponse("BATCH"))
          /\ UNCHANGED <<downloads, sinkResult>>

\* return allMessages, and the empty check of exportChannelViaAPI
HistoryReturn ==
  /\ pc = "history_return"
  /\ apiMessages' = allMessages
  /\ allMessages' = <<>> /\ cursor' = 0 /\ pageCount' = 0 /\ retryCount' = 0
  /\ histRequests' = 0 /\ histFailures' = 0 /\ pageLog' = <<>> /\ servedPages' = <<>>
  /\ UNCHANGED hasMore
  /\ IF Len(allMessages) = 0
     THEN Deliver([messageCount |-> 0, markdown |-> <<>>])
     ELSE /\ pc' = "collect"
          /\ UNCHANGED <<responses, downloads, sinkResult, result>>
  /\ UNCHANGED <<envVars, session, req, channelId, apiError, domError, histFailed,
                 collectVars, resolveVars, enrichedMessages, ei, domVars>>
  /\ UNCHANGED auxVars

\* ------------------------------------------------ identifier collection pass
\* the parameters of a conversations.replies request
RepliesParams_pageChannel(threadTs) ==
  [token |-> session.token, channel |-> urlChannel, ts |-> threadTs, oldest |-> session.oldest]
RepliesParams(threadTs) ==
  [token |-> session.token, channel |-> channelId, ts |-> threadTs, oldest |-> session.oldest]

CollectStep ==
  /\ pc = "collect"
  /\ ci <= Len(apiMessages)
  /\ LET msg == apiMessages[ci]
         own == AddAll(userIds, IdsOf(msg))
     IN IF WantsThread(config, msg)
        THEN \E outcome \in ThreadOutcomes :
               LET repliesRaw == fetchThreadReplies(msg.thread_ts, outcome) IN
               /\ userIds' = AddAll(own, IdsOfAll(repliesRaw))
               /\ threadLog' = Append(threadLog,
                                      [ts |-> msg.thread_ts, pass |-> 1, for |-> msg.ts, ok |-> outcome = "ok",
                                       requests |-> 1, params |-> RepliesParams(msg.thread_ts)])
        ELSE userIds' = own /\ UNCHANGED threadLog
  /\ ci' = ci + 1
  /\ pc' = IF ci = Len(apiMessages) THEN "resolve" ELSE "collect"
  /\ UNCHANGED <<envVars, session, req, channelId, apiError, domError, responses, downloads,
                 sinkResult, histVars, resolveVars, enrichVars, domVars>>
  /\ UNCHANGED auxVars

\* --------------------------------------------------------- fetchSpecificUsers
MemberOutcomes == {"ok", "not_ok", "network_error"}
\* fetchChannelMembers: [] on every path
fetchChannelMembers(outcome) == <<>>

\* the map built from the channel members that were asked for
RECURSIVE SeedFrom(_, _)
SeedFrom(members, ids) ==
  IF members = <<>> THEN EmptyMap
  ELSE LET rest == SeedFrom(Tail(members), ids)
           m == Head(members)
       IN IF m.id \in Range(ids) /\ m.id \notin DOMAIN rest
          THEN MapPut(rest, m.id, DisplayName(m)) ELSE rest

\* userIds.filter(id => !userMap[id])
RECURSIVE Unresolved(_, _)
Unresolved(ids, map) ==
  IF ids = <<>> THEN <<>>
  ELSE (IF MapGet(map, Head(ids), "") = "" THEN <<Head(ids)>> ELSE <<>>) \o Unresolved(Tail(ids), map)

\* the bulk channel-membership attempt and the computation of the remaining identifiers
ResolveMembers ==
  /\ pc = "resolve"
  /\ \E outcome \in MemberOutcomes :
       LET channelMembers == fetchChannelMembers(outcome)
           seeded == SeedFrom(channelMembers, userIds)
       IN /\ userMap' = seeded
          /\ remainingUserIds' = Unresolved(userIds, seeded)
          /\ lookupLog' = <<[kind |-> "members", id |-> "",
                           outcome |-> IF outcome = "ok" THEN "ok" ELSE "error"]>>
          /\ pc' = IF Unresolved(userIds, seeded) = <<>> THEN "enrich" ELSE "lookup"
  /\ ui' = 1
  /\ UNCHANGED <<envVars, session, req, channelId, apiError, domError, responses, downloads,
                 sinkResult, histVars, collectVars, enrichVars, domVars>>
  /\ UNCHANGED auxVars

LookupOutcomes == {"ok", "no_user", "error"}

AfterLookup_dropError(map, userId, outcome) ==
  IF outcome = "ok" THEN MapPut(map, userId, DisplayName(Directory(userId))) ELSE map

\* the map after one users.info lookup
AfterLookup(map, userId, outcome) ==
  IF outcome = "ok" THEN MapPut(map, userId, DisplayName(Directory(userId)))
  ELSE IF outcome = "no_user" THEN map
  ELSE MapPut(map, userId, UnknownUser)

\* the delay slept in the try block after fetchSingleUser returned; a lookup
\* that throws goes to the catch block, which does not sleep
lookupDelay(outcome) == IF outcome = "error" THEN 0 ELSE LookupDelay

\* if (i + batchSize < remainingUserIds.length) await setTimeout(500), after
\* the k-th lookup (counted from 1) of n when it is the last of its batch
batchDelay(k, n) == IF k % BatchSize = 0 /\ k < n THEN BatchDelay ELSE 0

\* one fetchSingleUser call of the batch loop
LookupUser(outcome) ==
  /\ pc = "lookup"
  /\ ui <= Len(remainingUserIds)
  /\ userMap' = AfterLookup(userMap, remainingUserIds[ui], outcome)
  /\ lookupLog' = Append(lookupLog, [kind |-> "user", id |-> remainingUserIds[ui], outcome |-> outcome,
                                     token |-> session.token,
                                     wait |-> lookupDelay(outcome),
                                     batchWait |-> batchDelay(ui, Len(remainingUserIds))])
  /\ ui' = ui + 1
  /\ pc' = IF ui = Len(remainingUserIds) THEN "enrich" ELSE "lookup"
  /\ UNCHANGED <<envVars, session, req, channelId, apiError, domError, responses, downloads,
                 sinkResult, histVars, collectVars, remainingUserIds, enrichVars, domVars>>
  /\ UNCHANGED auxVars

\* ------------------------------------------------------------ enrichment pass
\* for (const apiMsg of apiMessages): where the loop goes after message i
EnrichNext_recollect(i) == IF i = Len(apiMessages) THEN "finish" ELSE "collect"
EnrichNext_early(i) == IF i >= Len(apiMessages) - 1 THEN "finish" ELSE "enrich"
EnrichNext(i) == IF i = Len(apiMessages) THEN "finish" ELSE "enrich"

EnrichStep ==
  /\ pc = "enrich"
  /\ ei <= Len(apiMessages)
  /\ LET apiMsg == apiMessages[ei]
         sender == SenderOf(apiMsg, userMap)
         content == extractMessageContent(apiMsg, userMap)
     IN IF WantsThread(config, apiMsg)
        THEN \E outcome \in ThreadOutcomes :
               LET repliesRaw == fetchThreadReplies(apiMsg.thread_ts, outcome) IN
               /\ enrichedMessages' = Append(enrichedMessages,
                     [sender |-> sender, content |-> content, timestamp |-> apiMsg.ts,
                      threadReplies |-> EnrichReplies(repliesRaw, apiMsg.thread_ts, userMap)])
               /\ threadLog' = Append(threadLog,
                                      [ts |-> apiMsg.thread_ts, pass |-> 2, for |-> apiMsg.ts, ok |-> outcome = "ok",
                                       requests |-> 1, params |-> RepliesParams(apiMsg.thread_ts)])
        ELSE /\ enrichedMessages' = Append(enrichedMessages,
                     [sender |-> sender, content |-> content, timestamp |-> apiMsg.ts,
                      threadReplies |-> <<>>])
             /\ UNCHANGED threadLog
  /\ ei' = ei + 1
  /\ pc' = EnrichNext(ei)
  /\ UNCHANGED <<envVars, session, req, channelId, apiError, domError, responses, downloads,
                 sinkResult, histVars, userIds, ci, resolveVars, result, domVars>>
  /\ UNCHANGED auxVars

ChannelName == "general"

\* filter, sort, serialize, return; then the caller's handling of the result
Finish ==
  /\ pc = "finish"
  /\ LET messages == SortByTs(FilterContent(enrichedMessages))
         markdown == convertToMarkdown(messages, ChannelName, config)
     IN IF ~utils /\ Len(messages) > 0
        THEN \* escapeMarkdown is called on the undefined utilities
             ApiFail(TypeErrorMsg) /\ UNCHANGED <<downloads, sinkResult, result>>
        ELSE Deliver([messageCount |-> Len(messages), markdown |-> markdown])
             /\ UNCHANGED apiError
  /\ UNCHANGED <<envVars, session, req, channelId, domError, histVars, collectVars,
                 resolveVars, enrichedMessages, ei, domVars>>
  /\ UNCHANGED auxVars

\* the callback of the API path's DOWNLOAD_FILE request
SinkReply(ok) ==
  /\ pc = "done"
  /\ sinkResult = "pending"
  /\ sinkResult' = IF ok THEN "ok" ELSE "failed"
  /\ UNCHANGED <<envVars, session, pc, req, channelId, apiError, domError, responses, downloads,
                 histVars, collectVars, resolveVars, enrichVars, domVars>>
  /\ UNCHANGED auxVars


\* ------------------------------------------------------------- DOM fallback
DomMsg == [sender |-> "", timestamp |-> 0, content |-> <<>>, threadReplies |-> <<>>]
dX == [DomMsg EXCEPT !.sender = "Alice", !.timestamp = Ts(2), !.content = << <<"hello">> >>]
dY == [DomMsg EXCEPT !.sender = "bob", !.timestamp = Ts(1), !.content = << <<"first">> >>]
dZ == [DomMsg EXCEPT !.sender = "bob", !.timestamp = Ts(3)]
DomPool == {dX, dY, dZ}

\* (a, b) => a.timestamp && b.timestamp ? new Date(a.timestamp) - new Date(b.timestamp) : 0
DomCompare(a, b) == IF a.timestamp # 0 /\ b.timestamp # 0 THEN a.timestamp - b.timestamp ELSE 0

RECURSIVE DomInsert(_, _)
DomInsert(sorted, x) ==
  IF sorted = <<>> THEN <<x>>
  ELSE IF DomCompare(x, sorted[Len(sorted)]) < 0
       THEN Append(DomInsert(SubSeq(sorted, 1, Len(sorted) - 1), x), sorted[Len(sorted)])
       ELSE Append(sorted, x)

RECURSIVE DomSort(_)
DomSort(msgs) ==
  IF msgs = <<>> THEN <<>>
  ELSE DomInsert(DomSort(SubSeq(msgs, 1, Len(msgs) - 1)), msgs[Len(msgs)])

\* the extracted elements with content, sorted
extractVisibleMessages(elements) == DomSort(FilterContent(elements))

\* A message element of the page: the texts its sender, time and content
\* elements hold, which thread selectors it matches, and its child elements.
Element == [sender |-> "", timestamp |-> 0, content |-> <<>>, classes |-> {}, dataQa |-> "",
            children |-> <<>>]

\* const threadSelectors = [...]
threadSelectors == <<".c-message__thread", "[data-qa*=\"thread\"]", ".p-thread_view__reply">>

\* data-qa values that contain "thread"
ThreadQa == {"thread_reply"}

\* element.matches(selector), for the thread selectors
Matches(element, selector) ==
  IF selector = "[data-qa*=\"thread\"]" THEN element.dataQa \in ThreadQa
  ELSE selector \in {"." \o c : c \in element.classes}

\* the descendants of the elements of a list, in document order
RECURSIVE Descendants(_)
Descendants(children) ==
  IF children = <<>> THEN <<>>
  ELSE <<Head(children)>> \o Descendants(Head(children).children) \o Descendants(Tail(children))

\* element.querySelectorAll(selector)
querySelectorAll(element, selector) ==
  SelectSeq(Descendants(element.children), LAMBDA d : Matches(d, selector))

NullData == [null |-> TRUE]

\* extractMessageData: the element's own texts, then for every thread
\* selector every matching descendant, extracted by the same function and
\* kept when it has content; null when there is neither content nor reply
RECURSIVE extractMessageData(_)
RECURSIVE extractThreadElements(_)
RECURSIVE extractBySelectors(_, _)
extractThreadElements(threadElements) ==
  IF threadElements = <<>> THEN <<>>
  ELSE LET threadData == extractMessageData(Head(threadElements)) IN
       (IF threadData # NullData /\ threadData.content # <<>> THEN <<threadData>> ELSE <<>>)
       \o extractThreadElements(Tail(threadElements))
extractBySelectors(element, selectors) ==
  IF selectors = <<>> THEN <<>>
  ELSE extractThreadElements(querySelectorAll(element, Head(selectors)))
       \o extractBySelectors(element, Tail(selectors))
extractMessageData(element) ==
  LET threadReplies == extractBySelectors(element, threadSelectors) IN
  IF element.content = <<>> /\ threadReplies = <<>> THEN NullData
  ELSE [sender |-> element.sender, timestamp |-> element.timestamp,
        content |-> element.content, threadReplies |-> threadReplies]

BothErrors == "API: " \o apiError \o ", DOM: "

\* exportMessages up to the scroll loop
DomStart ==
  /\ pc = "dom_start"
  /\ \E scrollContainer \in BOOLEAN, initialCount \in 0..MaxDomCount :
       IF scrollContainer
       THEN /\ pc' = "dom_scroll"
            /\ previousCount' = initialCount
            /\ noNewMessagesCount' = 0
            /\ scrollI' = 0
       ELSE /\ pc' = "dom_extract"
            /\ UNCHANGED <<previousCount, noNewMessagesCount, scrollI>>
  /\ UNCHANGED <<envVars, session, req, channelId, apiError, domError, responses, downloads,
                 sinkResult, histVars, collectVars, resolveVars, enrichVars, domMessages>>
  /\ UNCHANGED auxVars

\* an iteration that leaves the counter alone when the count changed
DomScrollStep_noReset ==
  /\ pc = "dom_scroll"
  /\ scrollI < MaxScrolls
  /\ \E currentCount \in 0..MaxDomCount :
       LET newMessages == currentCount - previousCount IN
       IF newMessages = 0
       THEN /\ noNewMessagesCount' = noNewMessagesCount + 1
            /\ IF noNewMessagesCount + 1 >= MaxNoNew
               THEN pc' = "dom_extract" /\ UNCHANGED <<previousCount, scrollI>>
               ELSE /\ previousCount' = currentCount
                    /\ scrollI' = scrollI + 1
                    /\ pc' = IF scrollI + 1 < MaxScrolls THEN "dom_scroll" ELSE "dom_extract"
       ELSE /\ noNewMessagesCount' = noNewMessagesCount
            /\ previousCount' = currentCount
            /\ scrollI' = scrollI + 1
            /\ pc' = IF scrollI + 1 < MaxScrolls THEN "dom_scroll" ELSE "dom_extract"
  /\ UNCHANGED <<envVars, session, req, channelId, apiError, domError, responses, downloads,
                 sinkResult, histVars, collectVars, resolveVars, enrichVars, domMessages>>
  /\ UNCHANGED auxVars

\* one iteration of the scroll loop
DomScrollStep ==
  /\ pc = "dom_scroll"
  /\ scrollI < MaxScrolls
  /\ \E currentCount \in 0..MaxDomCount :
       LET newMessages == currentCount - previousCount IN
       IF newMessages = 0
       THEN /\ noNewMessagesCount' = noNewMessagesCount + 1
            /\ IF noNewMessagesCount + 1 >= MaxNoNew
               THEN pc' = "dom_extract" /\ UNCHANGED <<previousCount, scrollI>>
               ELSE /\ previousCount' = currentCount
                    /\ scrollI' = scrollI + 1
                    /\ pc' = IF scrollI + 1 < MaxScrolls THEN "dom_scroll" ELSE "dom_extract"
       ELSE /\ noNewMessagesCount' = 0
            /\ previousCount' = currentCount
            /\ scrollI' = scrollI + 1
            /\ pc' = IF scrollI + 1 < MaxScrolls THEN "dom_scroll" ELSE "dom_extract"
  /\ UNCHANGED <<envVars, session, req, channelId, apiError, domError, responses, downloads,
                 sinkResult, histVars, collectVars, resolveVars, enrichVars, domMessages>>
  /\ UNCHANGED auxVars

\* extraction, the empty check, serialization and the DOWNLOAD_FILE request
DomExtract ==
  /\ pc = "dom_extract"
  /\ \E elements \in DistinctSeqs(DomPool, MaxDomCount) :
       LET messages == extractVisibleMessages(elements) IN
       /\ domMessages' = messages
       /\ IF Len(messages) = 0
          THEN /\ Respond(OkResponse("DOM_FALLBACK"))
               /\ pc' = "done"
               /\ UNCHANGED <<domError, downloads>>
          ELSE IF ~utils
          THEN \* extractChannelName is called on the undefined utilities
               /\ domError' = TypeErrorMsg
               /\ Respond(FailResponse(BothErrors \o TypeErrorMsg))
               /\ pc' = "done"
               /\ UNCHANGED downloads
          ELSE /\ downloads' = Append(downloads,
                     [source |-> "DOM", content |-> convertToMarkdown(messages, ChannelName, config)])
               /\ pc' = "dom_download"
               /\ UNCHANGED <<domError, responses>>
  /\ UNCHANGED <<envVars, session, req, channelId, apiError, sinkResult, histVars, collectVars,
                 resolveVars, enrichVars, scrollI, previousCount, noNewMessagesCount>>
  /\ UNCHANGED auxVars

DomSinkOutcomes == {"ok", "failed_direct_ok", "failed_direct_failed"}

\* the awaited answer of the sink, and the direct download when it failed
DomSinkReply(outcome) ==
  /\ pc = "dom_download"
  /\ pc' = "done"
  /\ CASE outcome = "ok" ->
            /\ sinkResult' = "ok"
            /\ Respond(OkResponse("DOM_FALLBACK"))
            /\ UNCHANGED <<domError, downloads>>
       [] outcome = "failed_direct_ok" ->
            /\ sinkResult' = "failed"
            /\ downloads' = Append(downloads,
                  [source |-> "DIRECT", content |-> downloads[Len(downloads)].content])
            /\ Respond(OkResponse("DOM_FALLBACK"))
            /\ UNCHANGED domError
       [] OTHER ->
            /\ sinkResult' = "failed"
            /\ domError' = DownloadMsg
            /\ Respond(FailResponse(BothErrors \o DownloadMsg))
            /\ UNCHANGED downloads
  /\ UNCHANGED <<envVars, session, req, channelId, apiError, histVars, collectVars, resolveVars,
                 enrichVars, domVars>>
  /\ UNCHANGED auxVars

\* ------------------------------------------------------------ specification
Next ==
  \/ LoadUtils
  \/ ReceiveExportMessages
  \/ ReceiveBatchExportChannel
  \/ ApiStart
  \/ ChannelStart
  \/ \E o \in HistoryOutcomes : HistoryAttempt(o)
  \/ HistoryReturn
  \/ CollectStep
  \/ ResolveMembers
  \/ \E o \in LookupOutcomes : LookupUser(o)
  \/ EnrichStep
  \/ Finish
  \/ \E ok \in BOOLEAN : SinkReply(ok)
  \/ DomStart
  \/ DomScrollStep
  \/ DomExtract
  \/ \E o \in DomSinkOutcomes : DomSinkReply(o)

Spec == Init /\ [][Next]_vars

\* ------------------------------------------- the history fetch, with fairness
\* The export up to the return of getMessagesViaHistoryAPI.  Every request of
\* the fetch is awaited and answered (by a response or by a network error),
\* so the retry loop always takes its next step.
HistoryNext ==
  \/ ReceiveExportMessages
  \/ ReceiveBatchExportChannel
  \/ ApiStart
  \/ ChannelStart
  \/ \E o \in HistoryOutcomes : HistoryAttempt(o)
  \/ HistoryReturn

\* the configuration and the utilities play no part in the fetch
HistoryInit ==
  /\ Init
  /\ utils /\ config = [includeThreadReplies |-> TRUE, includeTimestamps |-> TRUE]

HistorySpec ==
  /\ HistoryInit /\ [][HistoryNext]_vars
  /\ WF_vars(\E o \in HistoryOutcomes : HistoryAttempt(o))
  /\ WF_vars(HistoryReturn)

\* -------------------------------------------- functions applied on their own
MaxFiles == 2        \* files attached to one message at most
MaxRepeats == 2      \* runs of the serialization over the same inputs

\* the export itself stays idle, with the utilities loaded
PureStart ==
  /\ ExportInit
  /\ utils /\ urlChannel = "C1" /\ hasToken
  /\ config = [includeThreadReplies |-> TRUE, includeTimestamps |-> TRUE]

Clocks ==
  [now : {T0 + 4000, T0 + 90000, T0 + 3 * 86400, T0 + 200 * 86400}, offset : {0, 36000}]

\* timestamps from a year back to the day of T0, among them local midnight
\* and local noon of that day at offset 0
StampInputs ==
  {UnixStamp(t) : t \in {T0, T0 - 18357, T0 + 24843, T0 - 40000, T0 - 5 * 86400,
                         T0 - 30 * 86400, T0 - 300 * 86400}}
  \cup {Stamp("iso", T0, ""), Stamp("permalink", T0, ""),
        Stamp("relative", 0, "Yesterday 05:00 AM"), Stamp("other", 0, "5:05 PM")}

FileInputs ==
  [name : {"", "a.png"}, title : {"", "Pic"}, url_private : {"", "https://f/1"},
   permalink : {""}, mimetype : {"", "image/png"}]

ContentInputs ==
  {[RawMsg EXCEPT !.ts = T0, !.user = "U1", !.text = t, !.files = fs, !.blocks = b, !.subtype = st] :
     t \in {<<>>, <<W("see"), M("U2")>>},
     fs \in UNION {[1..n -> FileInputs] : n \in 0..MaxFiles},
     b \in {<<>>, <<[Block EXCEPT !.text = <<W("cc")>>]>>},
     st \in {"", "channel_join"}}

\* users.info records with each name field present or absent
UserInputs ==
  [real_name : {"", "Ann Lee"}, display_name : {"", "ann"},
   profile_real_name : {"", "Ann L."}, name : {"", "alee"}]

\* raw messages with and without a sender identifier, a bot subtype, a bot
\* identifier and a bot name
SenderInputs ==
  {[RawMsg EXCEPT !.ts = T0, !.user = u, !.subtype = st, !.bot_id = b, !.username = n,
                  !.text = <<W("done")>>] :
     u \in {"", "U1", "U9"}, st \in {"", "bot_message", "channel_join"},
     b \in {"", "B1"}, n \in {"", "deploybot"}}

MapInputs == {EmptyMap, [id \in {"U1", "U2", "U3"} |-> DisplayName(Directory(id))]}

\* the enrichment loop of exportChannelViaAPI over given messages and map;
\* outcome is that of each conversations.replies request
RECURSIVE enrich(_, _, _, _)
enrich(msgs, map, cfg, outcome) ==
  IF msgs = <<>> THEN <<>>
  ELSE LET apiMsg == Head(msgs)
           repliesRaw == IF WantsThread(cfg, apiMsg)
                         THEN fetchThreadReplies(apiMsg.thread_ts, outcome) ELSE <<>>
       IN <<[sender |-> SenderOf(apiMsg, map),
             content |-> extractMessageContent(apiMsg, map),
             timestamp |-> apiMsg.ts,
             threadReplies |-> EnrichReplies(repliesRaw, apiMsg.thread_ts, map)]>>
          \o enrich(Tail(msgs), map, cfg, outcome)

\* enrichment, filter, sort and serialization at the current wall clock
serialize(arg) ==
  convertToMarkdown(SortByTs(FilterContent(enrich(arg.msgs, arg.userMap, arg.cfg, arg.outcome))),
                    ChannelName, arg.cfg)

PureInit ==
  /\ PureStart
  /\ clock \in Clocks /\ probe = NoProbe /\ runs = <<>> /\ procs = <<>>

\* time passes between two runs; the time zone of the browser stays
Tick ==
  /\ probe.fn \in {"none", "serialize"}
  /\ \E c \in Clocks : c.now > clock.now /\ c.offset = clock.offset /\ clock' = c
  /\ UNCHANGED <<exportVars, probe, runs, procs>>

ApplyFormatTimestamp ==
  /\ probe.fn = "none"
  /\ \E t \in StampInputs :
       /\ probe' = [fn |-> "formatTimestamp", arg |-> t]
       /\ runs' = <<formatTimestamp(t)>>
  /\ UNCHANGED <<exportVars, clock, procs>>

\* the display name fetchSpecificUsers stores for a user record
ApplyDisplayName ==
  /\ probe.fn = "none"
  /\ \E u \in UserInputs :
       /\ probe' = [fn |-> "DisplayName", arg |-> u]
       /\ runs' = <<DisplayName(u)>>
  /\ UNCHANGED <<exportVars, clock, procs>>

\* the content of a message as the string returned
ApplyContentString ==
  /\ probe.fn = "none"
  /\ \E m \in ContentInputs, map \in MapInputs :
       /\ probe' = [fn |-> "contentString", arg |-> [msg |-> m, userMap |-> map]]
       /\ runs' = <<contentString(m, map)>>
  /\ UNCHANGED <<exportVars, clock, procs>>

\* the sender of a message enriched as a history message or as a thread reply
ApplySenderOf ==
  /\ probe.fn = "none"
  /\ \E m \in SenderInputs, map \in MapInputs, role \in {"message", "reply"} :
       /\ probe' = [fn |-> "SenderOf", arg |-> [msg |-> m, userMap |-> map, role |-> role]]
       /\ runs' = <<IF role = "message" THEN SenderOf(m, map) ELSE ReplySenderOf(m, map)>>
  /\ UNCHANGED <<exportVars, clock, procs>>

\* thread elements: a plain reply, one without content, one that two of the
\* thread selectors match, and a reply with a reply element inside it
eLeaf == [Element EXCEPT !.sender = "bob", !.timestamp = Ts(2), !.content = << <<"reply">> >>,
                         !.classes = {"c-message__thread"}]
eEmpty == [Element EXCEPT !.sender = "bob", !.classes = {"p-thread_view__reply"}]
eBoth == [eLeaf EXCEPT !.dataQa = "thread_reply"]
eN == [Element EXCEPT !.sender = "cat", !.timestamp = Ts(3), !.content = << <<"deep">> >>,
                      !.classes = {"p-thread_view__reply"}]
eR == [eLeaf EXCEPT !.children = <<eN>>]

\* message elements without replies, with replies one level down and two
ElementInputs ==
  {[Element EXCEPT !.sender = "Alice", !.timestamp = Ts(1), !.content = c, !.children = ch] :
     c \in {<<>>, << <<"hello">> >>},
     ch \in {<<>>, <<eLeaf>>, <<eEmpty>>, <<eLeaf, eEmpty>>, <<eBoth>>, <<eR>>}}

ApplyExtractMessageData ==
  /\ probe.fn = "none"
  /\ \E element \in ElementInputs :
       /\ probe' = [fn |-> "extractMessageData", arg |-> element]
       /\ runs' = <<extractMessageData(element)>>
  /\ UNCHANGED <<exportVars, clock, procs>>

ApplyExtractMessageContent ==
  /\ probe.fn = "none"
  /\ \E m \in ContentInputs, map \in MapInputs :
       /\ probe' = [fn |-> "extractMessageContent", arg |-> [msg |-> m, userMap |-> map]]
       /\ runs' = <<extractMessageContent(m, map)>>
  /\ UNCHANGED <<exportVars, clock, procs>>

ApplySerialize ==
  /\ probe.fn = "none"
  /\ \E msgs \in DistinctSeqs(Pool, MaxPageLen), map \in MapInputs,
        cfg \in [includeThreadReplies : BOOLEAN, includeTimestamps : BOOLEAN],
        outcome \in {"ok", "api_error"} :
       LET arg == [msgs |-> msgs, userMap |-> map, cfg |-> cfg, outcome |-> outcome] IN
       /\ probe' = [fn |-> "serialize", arg |-> arg]
       /\ runs' = <<serialize(arg)>>
  /\ UNCHANGED <<exportVars, clock, procs>>

\* another run over the same inputs
RepeatSerialize ==
  /\ probe.fn = "serialize"
  /\ Len(runs) < MaxRepeats
  /\ runs' = Append(runs, serialize(probe.arg))
  /\ UNCHANGED <<exportVars, clock, probe, procs>>

PureNext ==
  \/ Tick
  \/ ApplyFormatTimestamp
  \/ ApplyDisplayName
  \/ ApplySenderOf
  \/ ApplyContentString
  \/ ApplyExtractMessageContent
  \/ ApplyExtractMessageData
  \/ ApplySerialize
  \/ RepeatSerialize

PureSpec == PureInit /\ [][PureNext]_vars

\* ------------------------------------------------- the listener, several runs
MaxRuns == 2         \* export requests the listener receives at most

\* the requests an export run awaits, in the order the code reaches them
NetStages == {"history", "replies1", "members", "user", "replies2"}
RateLimitedStages == {"history", "replies1", "user", "replies2"}

\* where a run can go when the response to its request has been handled
Successors(stage) ==
  CASE stage = "history" -> {"history", "replies1", "members", "done"}
    [] stage = "replies1" -> {"replies1", "members"}
    [] stage = "members" -> {"user", "replies2", "done"}
    [] stage = "user" -> {"user", "replies2", "done"}
    [] stage = "replies2" -> {"replies2", "done"}
    [] OTHER -> {}

ListenerInit ==
  /\ PureStart
  /\ clock = ExportClock /\ probe = NoProbe /\ runs = <<>> /\ procs = <<>>

\* the listener is called with an export request; it starts the export's
\* promise chain and returns, whatever the earlier runs are doing
Arrive(action) ==
  /\ Len(procs) < MaxRuns
  /\ procs' = Append(procs, [action |-> action, stage |-> "start", inflight |-> FALSE])
  /\ UNCHANGED <<exportVars, clock, probe, runs>>

\* the run reaches its first request, or fails before it (no channel, no token)
StartRun(r) ==
  /\ r \in DOMAIN procs /\ procs[r].stage = "start"
  /\ \E next \in {"history", "done"} : procs' = [procs EXCEPT ![r].stage = next]
  /\ UNCHANGED <<exportVars, clock, probe, runs>>

\* await fetch(...): the request leaves and the run is suspended
SendRequest(r) ==
  /\ r \in DOMAIN procs /\ procs[r].stage \in NetStages /\ ~procs[r].inflight
  /\ procs' = [procs EXCEPT ![r].inflight = TRUE]
  /\ UNCHANGED <<exportVars, clock, probe, runs>>

\* the response (or the network error) arrives and the run goes on to its
\* next request or to its end
ReceiveResponse(r) ==
  /\ r \in DOMAIN procs /\ procs[r].inflight
  /\ \E next \in Successors(procs[r].stage) :
       procs' = [procs EXCEPT ![r].stage = next, ![r].inflight = FALSE]
  /\ UNCHANGED <<exportVars, clock, probe, runs>>

ListenerNext ==
  \/ \E a \in {"EXPORT_MESSAGES", "BATCH_EXPORT_CHANNEL"} : Arrive(a)
  \/ \E r \in 1..MaxRuns : StartRun(r)
  \/ \E r \in 1..MaxRuns : SendRequest(r)
  \/ \E r \in 1..MaxRuns : ReceiveResponse(r)

ListenerSpec == ListenerInit /\ [][ListenerNext]_vars


\* ------------------------------------------------------------------ claims
Answer == responses[1]
FailedOnPage == {i \in 1..Len(pageLog) : pageLog[i].outcome # "ok"}
ThreadFailed(m, pass) ==
  \E k \in 1..Len(threadLog) :
    threadLog[k].for = m.ts /\ threadLog[k].pass = pass /\ ~threadLog[k].ok
ThreadFetched(m, pass) ==
  \E k \in 1..Len(threadLog) :
    threadLog[k].for = m.ts /\ threadLog[k].pass = pass /\ threadLog[k].ok

\* the lines the serializer writes for one enriched message without replies
AppearsAlone(doc, e) ==
  \E j \in 1..Len(doc) - 1 :
    /\ doc[j].k = "sender" /\ doc[j].sender = e.sender
    /\ doc[j + 1] = [k |-> "content", content |-> e.content]
    /\ (j + 2 <= Len(doc) => doc[j + 2].k \notin {"label", "reply"})

\* C1: when the API path of an EXPORT_MESSAGES request ends in a fatal error,
\* the DOM fallback runs for that request, and when the fallback fails too the
\* answer is success=false carrying both the API error and the DOM error.
C1_FallbackOnApiFailure ==
  (req = "EXPORT_MESSAGES" /\ pc = "done" /\ apiError # "") =>
    \/ Answer.method = "DOM_FALLBACK"
    \/ /\ ~Answer.success
       /\ domError # ""
       /\ Answer.error = "API: " \o apiError \o ", DOM: " \o domError

\* C2: the answer to EXPORT_MESSAGES is success=true exactly when the pipeline
\* that produced it ended without a fatal error and the sink did not report a
\* failure; a failed pipeline or a failed sink is answered with success=false.
C2_OutcomeMatchesPipeline ==
  (req = "EXPORT_MESSAGES" /\ pc = "done") =>
    LET viaDom == Answer.method = "DOM_FALLBACK" \/ domError # ""
        failed == IF viaDom THEN domError # ""
                  ELSE apiError # "" \/ sinkResult = "failed"
    IN Answer.success <=> ~failed

\* C3: no partial file. After a fatal history failure no DOWNLOAD_FILE request
\* exists, and a DOWNLOAD_FILE request of the API path is sent only when the
\* history fetch ran to its last page, every collected identifier was looked
\* up, every fetched message was enriched, and its content is the serialization
\* of the whole filtered and sorted result.
C3_NoPartialFile ==
  /\ histFailed => downloads = <<>>
  /\ \A i \in 1..Len(downloads) :
       downloads[i].source = "API" =>
         /\ ~hasMore /\ ~histFailed /\ apiError = ""
         /\ apiMessages # <<>>
         /\ ci = Len(apiMessages) + 1
         /\ ui = Len(remainingUserIds) + 1
         /\ Len(enrichedMessages) = Len(apiMessages)
         /\ downloads[i].content =
              convertToMarkdown(SortByTs(FilterContent(enrichedMessages)), ChannelName, config)

C3_Witness ==
  /\ Len(downloads) = 1 /\ downloads[1].source = "API"
  /\ Len(apiMessages) = 3 /\ Len(downloads[1].content) > 3

\* C4: a history fetch without failing requests over a history served in N
\* pages issues exactly N requests, and the fetch returns the messages of the
\* N pages concatenated in page order.
C4_PagesAndRequests ==
  pc = "history_return" =>
    /\ allMessages = Concat(servedPages)
    /\ histFailures = 0 => (histRequests = Len(servedPages) /\ pageCount = Len(servedPages))

C4_Witness ==
  /\ pc = "history_return" /\ histFailures = 0
  /\ Len(servedPages) = 3 /\ histRequests = 3
  /\ Len(servedPages[1]) = 2 /\ Len(servedPages[3]) = 1 /\ Len(allMessages) = 3

\* C5: a history page all of whose responses are rate-limited is retried
\* exactly 3 times (4 requests in all), the delays slept before the retries
\* are strictly increasing, and then the fetch raises a fatal error.
C5_ThreeRetriesWhenRateLimited ==
  (histFailed /\ \A i \in 1..Len(pageLog) : pageLog[i].outcome = "ratelimited") =>
    /\ Len(pageLog) - 1 = 3
    /\ \A i \in 1..Len(pageLog) - 1 : 0 < pageLog[i].wait /\ pageLog[i].wait < pageLog[i + 1].wait

\* C6: whatever mix of failures a history page meets, at most 3 requests are
\* issued for it; after the third failure the fetch has raised instead of
\* moving on, and the caller got no message: nothing was collected, enriched,
\* returned or downloaded.
C6_BoundedAttempts ==
  /\ Len(pageLog) <= MaxAttempts
  /\ Cardinality(FailedOnPage) = MaxAttempts => histFailed
  /\ histFailed =>
       /\ pc = "done" /\ apiError \in {RetriesMsg, HistoryApiMsg, NetworkMsg}
       /\ apiMessages = <<>> /\ userIds = <<>> /\ enrichedMessages = <<>>
       /\ result = NoResult /\ downloads = <<>>

C6_Witness ==
  /\ histFailed /\ Len(servedPages) = 1 /\ Len(allMessages) = 2
  /\ Len(pageLog) = 3
  /\ pageLog[1].outcome = "ratelimited" /\ pageLog[2].outcome = "network_error"
  /\ pageLog[3].outcome = "api_error"

\* C7: a failed thread-replies request never ends the export; the parent is
\* enriched with its own content and no replies, and when the export delivers
\* its result a parent with content of its own is in the document, followed by
\* no reply lines.
C7_ThreadFailureKeepsParent ==
  /\ (\E k \in 1..Len(threadLog) : ~threadLog[k].ok) => apiError \in {"", TypeErrorMsg}
  /\ \A i \in 1..Len(enrichedMessages) :
       ThreadFailed(apiMessages[i], 2) =>
         /\ enrichedMessages[i].threadReplies = <<>>
         /\ enrichedMessages[i].content = extractMessageContent(apiMessages[i], userMap)
         /\ enrichedMessages[i].timestamp = apiMessages[i].ts
         /\ (result.messageCount >= 0 /\ HasContent(enrichedMessages[i].content)) =>
              AppearsAlone(result.markdown, enrichedMessages[i])

C7_Witness ==
  /\ pc = "done" /\ result.messageCount = 2
  /\ \E i \in 1..Len(enrichedMessages) :
       /\ apiMessages[i] = mB /\ ThreadFailed(mB, 2) /\ ThreadFetched(mB, 1)
       /\ AppearsAlone(result.markdown, enrichedMessages[i])

\* C8: a thread-replies request is issued for a message only when thread
\* inclusion is enabled and that message reports a reply count above zero;
\* with thread inclusion disabled no thread-replies request is issued.
C8_ThreadRequestsOnlyWhenWanted ==
  /\ ~config.includeThreadReplies => threadLog = <<>>
  /\ \A k \in 1..Len(threadLog) :
       /\ config.includeThreadReplies
       /\ \E m \in Range(apiMessages) :
            m.ts = threadLog[k].for /\ m.thread_ts = threadLog[k].ts /\ m.reply_count > 0

C8_Witness ==
  /\ pc = "done" /\ Len(threadLog) = 4
  /\ mA \in Range(apiMessages)

\* every identifier a raw message refers to: sender, text mentions, block mentions
RECURSIVE BlockMentionIds(_)
BlockMentionIds(blocks) ==
  IF blocks = <<>> THEN <<>> ELSE MentionIds(Head(blocks).text) \o BlockMentionIds(Tail(blocks))
ReferencedIds(m) == Range(IdsOf(m)) \cup Range(BlockMentionIds(m.blocks))
RenderedReplies(m) == {r \in Range(ThreadOf(m.thread_ts)) : r.ts # m.thread_ts}
AllLookupsOk == \A k \in 1..Len(lookupLog) : lookupLog[k].outcome = "ok"

\* C9: once enrichment has run, the resolved-user map has an entry for every
\* identifier that is the sender of, or is mentioned in, an enriched message or
\* a thread reply rendered under it (stated here for runs in which every
\* lookup succeeded).
C9_MapCoversEnrichedIdentifiers ==
  (pc = "finish" /\ AllLookupsOk) =>
    \A i \in 1..Len(enrichedMessages) :
      /\ ReferencedIds(apiMessages[i]) \subseteq DOMAIN userMap
      /\ ThreadFetched(apiMessages[i], 2) =>
           \A r \in RenderedReplies(apiMessages[i]) : ReferencedIds(r) \subseteq DOMAIN userMap

\* C10: the mapping fetchSpecificUsers returns has exactly one entry for every
\* requested identifier, and no entry is empty.
C10_MapTotalOverRequested ==
  (pc \in {"enrich", "finish"}) =>
    /\ DOMAIN userMap = Range(userIds)
    /\ \A id \in DOMAIN userMap : userMap[id] # ""

\* the individual lookups issued so far, in order
UserLookups == SelectSeq(lookupLog, LAMBDA e : e.kind = "user")
LookedUpIds == [k \in 1..Len(UserLookups) |-> UserLookups[k].id]

\* C11: a failed individual lookup maps its identifier to "Unknown User" and
\* does not end resolution or the export: once resolution is over every
\* collected identifier has been looked up individually, in order, whatever
\* the outcomes of the lookups before it; and after a failed bulk membership
\* lookup the identifiers to look up individually are all the collected ones.
C11_FailedLookupNeverAborts ==
  /\ \A k \in 1..Len(UserLookups) :
       UserLookups[k].outcome = "error" =>
         /\ UserLookups[k].id \in DOMAIN userMap
         /\ userMap[UserLookups[k].id] = UnknownUser
  /\ (\E k \in 1..Len(UserLookups) : UserLookups[k].outcome = "error") =>
       apiError \in {"", TypeErrorMsg}
  /\ (lookupLog # <<>> /\ pc = "lookup") => LookedUpIds = SubSeq(userIds, 1, ui - 1)
  /\ (lookupLog # <<>> /\ pc # "lookup") => LookedUpIds = userIds
  /\ (lookupLog # <<>> /\ lookupLog[1].outcome = "error") => remainingUserIds = userIds

C11_Witness ==
  /\ pc = "finish" /\ Len(lookupLog) = 4
  /\ lookupLog[1].outcome = "error"
  /\ lookupLog[2].outcome = "error" /\ lookupLog[3].outcome = "ok"
  /\ lookupLog[4].outcome = "error"
  /\ userMap[lookupLog[2].id] = UnknownUser /\ userMap[lookupLog[3].id] # UnknownUser

\* the identifiers that occur in the messages fetched so far: in the history
\* messages and in the replies of the threads the collection pass fetched
FetchedIds ==
  UNION {ReferencedIds(m) : m \in Range(apiMessages)}
  \cup UNION {ReferencedIds(r) : r \in UNION {Range(ThreadOf(m.thread_ts)) :
                                     m \in {x \in Range(apiMessages) : ThreadFetched(x, 1)}}}

\* C12: within one export run no identifier is looked up individually more
\* than once, also when it is a sender and a mention or occurs in several
\* messages, and every identifier looked up occurs in the fetched messages.
C12_NoIdentifierLookedUpTwice ==
  /\ \A j \in 1..Len(UserLookups) : \A k \in 1..Len(UserLookups) :
       j # k => UserLookups[j].id # UserLookups[k].id
  /\ \A k \in 1..Len(UserLookups) : UserLookups[k].id \in FetchedIds

C12_Witness ==
  /\ pc = "enrich" /\ {mA, mB} \subseteq Range(apiMessages) /\ ThreadFetched(mB, 1)
  /\ Len(UserLookups) = 3
  /\ {UserLookups[k].id : k \in 1..3} = {"U1", "U2", "U3"}

\* the messages the export serializes
FinalMessages == SortByTs(FilterContent(enrichedMessages))
Ascending(msgs) ==
  \A i \in 1..Len(msgs) : \A j \in 1..Len(msgs) : i < j => msgs[i].timestamp <= msgs[j].timestamp
\* the senders of the message lines of a document, in document order
DocSenders(doc) ==
  LET lines == SelectSeq(doc, LAMBDA l : l.k = "sender")
  IN [i \in 1..Len(lines) |-> lines[i].sender]

\* C13: whatever order the history pages and their messages arrive in, the
\* messages of the document the API export delivers are in non-decreasing
\* order of their timestamps compared as numbers.
C13_DocumentSortedByTimestamp ==
  (pc = "done" /\ result.messageCount > 0) =>
    /\ result.markdown = convertToMarkdown(FinalMessages, ChannelName, config)
    /\ Ascending(FinalMessages)
    /\ DocSenders(result.markdown) = [i \in 1..Len(FinalMessages) |-> FinalMessages[i].sender]
    /\ \A e \in Range(enrichedMessages) :
         HasContent(e.content) => e \in Range(FinalMessages)

C13_Witness ==
  /\ pc = "done" /\ result.messageCount = 2 /\ Len(apiMessages) = 3
  /\ apiMessages[1] = mD /\ apiMessages[2] = mA /\ apiMessages[3] = mB

\* the reply lines that follow the message line j of a document
HasReplyWithContent(doc, j) ==
  /\ j + 2 <= Len(doc) /\ doc[j + 1].k = "label"
  /\ \E r \in j + 2..Len(doc) :
       /\ doc[r].k = "reply" /\ HasContent(doc[r].content)
       /\ \A q \in j + 2..r : doc[q].k = "reply"

\* C14: every message of the final export result has non-empty content of
\* its own or at least one reply with non-empty content; this holds of the
\* document the API export delivers and of the messages the DOM extraction
\* returns.
C14_FinalMessagesHaveContent ==
  /\ result.messageCount > 0 =>
       \A j \in 1..Len(result.markdown) :
         result.markdown[j].k = "sender" =>
           \/ /\ j + 1 <= Len(result.markdown)
              /\ result.markdown[j + 1].k = "content"
              /\ HasContent(result.markdown[j + 1].content)
           \/ HasReplyWithContent(result.markdown, j)
  /\ \A i \in 1..Len(domMessages) :
       HasContent(domMessages[i].content)
       \/ \E r \in Range(domMessages[i].threadReplies) : HasContent(r.content)

C14_Witness ==
  /\ pc = "done" /\ result.messageCount = 2
  /\ mD \in Range(apiMessages) /\ ThreadFailed(mD, 2)

\* a message the claim keeps: content of its own or a reply with content
KeptByClaim(e) ==
  HasContent(e.content) \/ \E r \in Range(e.threadReplies) : HasContent(r.content)

\* C15: a fetched message is absent from the final result exactly when its
\* own content is empty and none of its enriched replies has content; a
\* message with empty content and a reply with content is kept.
C15_DroppedOnlyWithoutContentAndReplies ==
  (pc = "done" /\ result.messageCount >= 0 /\ enrichedMessages # <<>>) =>
    result.messageCount =
      Cardinality({i \in 1..Len(enrichedMessages) : KeptByClaim(enrichedMessages[i])})

C17_NoTwoRequestsInFlight ==
  Cardinality({r \in DOMAIN procs :
                 procs[r].inflight /\ procs[r].stage \in RateLimitedStages}) <= 1

\* the name the file part shows for one file
ShownName(f) == IF f.name # "" THEN f.name ELSE IF f.title # "" THEN f.title ELSE "Unnamed file"

\* C18: for a raw message with no primary text, a non-empty files list and no
\* blocks, the derived content is non-empty and has a part that starts with
\* the attachment marker and holds the name of each file.
C18_FilesOnlyContent ==
  (/\ probe.fn = "extractMessageContent"
   /\ probe.arg.msg.text = <<>> /\ probe.arg.msg.files # <<>> /\ probe.arg.msg.blocks = <<>>) =>
    /\ HasContent(runs[1])
    /\ \E p \in 1..Len(runs[1]) :
         /\ runs[1][p][1] = "Files: "
         /\ \A i \in 1..Len(probe.arg.msg.files) :
              ShownName(probe.arg.msg.files[i]) \in Range(Tail(runs[1][p]))

C18_Witness ==
  /\ probe.fn = "extractMessageContent"
  /\ probe.arg.msg.text = <<>> /\ probe.arg.msg.blocks = <<>> /\ probe.arg.msg.subtype = ""
  /\ Len(probe.arg.msg.files) = 2
  /\ probe.arg.msg.files[1].name = "a.png" /\ probe.arg.msg.files[1].title = "Pic"
  /\ probe.arg.msg.files[1].url_private # ""
  /\ probe.arg.msg.files[2].name = "" /\ probe.arg.msg.files[2].title = ""
  /\ Len(runs[1]) = 1

C20_PaginationTerminates ==
  /\ [](/\ pc = "history" => hasMore
        /\ pc = "history_return" =>
             /\ ~hasMore /\ pageLog[Len(pageLog)].outcome = "ok"
             /\ Len(servedPages) = pageCount
        /\ \A i \in 1..Len(pageLog) :
             pageLog[i].cursor = (IF pageLog[i].page = 1 THEN 0 ELSE pageLog[i].page - 1))
  /\ (pc = "history") ~> (pc \in {"collect", "done"})

C20_Witness ==
  /\ pc = "history_return" /\ Len(servedPages) = 3 /\ histFailures = 4
  /\ Len(pageLog) = 3 /\ pageLog[3].cursor = 2

\* the request parameters a log entry records
ParamsOf(e) == <<e.page, e.cursor, e.channel, e.oldest, e.limit>>
NoDuplicates(s) == \A i \in 1..Len(s) : \A j \in 1..Len(s) : i # j => s[i] # s[j]

\* C21: a failed attempt on a history page leaves the accumulated messages,
\* the cursor and the has-more flag as they were, and every request issued
\* for a page carries the same page, cursor, channel, lower time bound and
\* limit; so the accumulated list is always the served pages in order, each
\* once, and one page is served per page counted.
C21_FailedAttemptKeepsPage ==
  /\ [][(pc = "history" /\ histFailures' = histFailures + 1) =>
          /\ allMessages' = allMessages /\ cursor' = cursor /\ hasMore' = hasMore
          /\ pageCount' = pageCount /\ servedPages' = servedPages]_vars
  /\ [](\A i \in 1..Len(pageLog) : \A j \in 1..Len(pageLog) :
          ParamsOf(pageLog[i]) = ParamsOf(pageLog[j]))
  /\ [](/\ allMessages = Concat(servedPages)
        /\ NoDuplicates(allMessages)
        /\ pc = "history" => Len(servedPages) = pageCount - 1
        /\ pc = "history_return" => Len(servedPages) = pageCount)

C21_Witness ==
  /\ pc = "history_return" /\ Len(servedPages) = 2 /\ Len(allMessages) = 3
  /\ Len(pageLog) = 3 /\ pageLog[1].outcome = "ratelimited"
  /\ pageLog[2].outcome = "network_error" /\ pageLog[3].outcome = "ok"
  /\ pageLog[3].cursor = 1 /\ histFailures = 3


\* C22: the first request for every history page after the first is preceded
\* by the fixed pacing delay, which therefore lies between the successful
\* fetch of the page before and that request; the first request of a fetch
\* is preceded by no pacing delay, and neither is a retry.
C22_PacingBetweenPages ==
  \A i \in 1..Len(pageLog) :
    pageLog[i].pre = (IF i = 1 /\ pageLog[i].page > 1 THEN PageDelay ELSE 0)

C22_Witness ==
  /\ pc = "history" /\ Len(servedPages) = 1 /\ Len(pageLog) = 2
  /\ pageLog[1].page = 2 /\ pageLog[1].pre = PageDelay /\ pageLog[2].pre = 0


\* C23: a failing thread-replies request is retried with backoff up to the
\* bound of 3 attempts, and only then is the failure swallowed and the empty
\* sequence returned: every failed thread fetch has issued 3 requests.
C23_ThreadFetchRetries ==
  \A k \in 1..Len(threadLog) : ~threadLog[k].ok => threadLog[k].requests = MaxAttempts

\* the batch (counted from 0) the k-th individual lookup belongs to
BatchOf(k) == (k - 1) \div BatchSize

\* C24: individual lookups go in batches of at most 10; two consecutive
\* lookups of one batch are separated by the small pacing delay whether the
\* earlier one succeeded or failed, the last lookup of a batch and the first
\* of the next by the inter-batch delay, and no inter-batch delay follows the
\* last lookup.
C24_LookupPacing ==
  \A k \in 1..Len(UserLookups) :
    /\ (k < Len(UserLookups) /\ BatchOf(k) = BatchOf(k + 1)) =>
         (UserLookups[k].wait = LookupDelay /\ UserLookups[k].batchWait = 0)
    /\ (k < Len(UserLookups) /\ BatchOf(k) # BatchOf(k + 1)) =>
         UserLookups[k].batchWait = BatchDelay
    /\ k = Len(remainingUserIds) => UserLookups[k].batchWait = 0


\* C25: the display name stored for a looked-up user is the first non-empty
\* of real name, profile display name, profile real name, account handle, and
\* "Unknown User" when all four are empty.
C25_DisplayNamePrecedence ==
  probe.fn = "DisplayName" =>
    LET u == probe.arg
        order == <<u.real_name, u.display_name, u.profile_real_name, u.name>>
        filled == {i \in 1..4 : order[i] # ""}
    IN /\ filled = {} => runs[1] = "Unknown User"
       /\ \A i \in filled : (\A j \in filled : i <= j) => runs[1] = order[i]

C25_Witness ==
  /\ probe.fn = "DisplayName"
  /\ probe.arg.real_name = "" /\ probe.arg.display_name = ""
  /\ probe.arg.profile_real_name # "" /\ probe.arg.name # ""
  /\ runs[1] = probe.arg.profile_real_name


\* C26: the sender of an enriched message, history message or thread reply,
\* is the name the resolved map holds for its sender identifier when it
\* carries one; otherwise, for a bot-subtype message, the supplied bot name or
\* else "Bot"; otherwise, for any other subtype, "System".
C26_SenderDerivation ==
  probe.fn = "SenderOf" =>
    LET m == probe.arg.msg IN
    /\ m.user # "" => runs[1] = MapGet(probe.arg.userMap, m.user, "Unknown User")
    /\ (m.user = "" /\ m.subtype = "bot_message") =>
         runs[1] = (IF m.username # "" THEN m.username ELSE "Bot")
    /\ (m.user = "" /\ m.subtype \notin {"", "bot_message"}) => runs[1] = "System"


\* where a piece occurs first in a content string (0: nowhere)
PosOf(out, piece) ==
  IF \E i \in 1..Len(out) : out[i] = piece
  THEN CHOOSE i \in 1..Len(out) : out[i] = piece /\ \A j \in 1..i - 1 : out[j] # piece
  ELSE 0
\* the piece starts a part: it is first, or it follows a blank line
StartsPart(out, piece) ==
  PosOf(out, piece) = 1 \/ (PosOf(out, piece) > 1 /\ out[PosOf(out, piece) - 1] = BlankLine)

\* C27: the content string of a message holds the parts the message triggers
\* in the order primary text, files, blocks, subtype text; two consecutive
\* parts are separated by exactly one blank line, and there is no blank line
\* at the start, at the end, or next to another: a part that is not
\* triggered leaves nothing.
C27_PartsInOrderOneBlankLine ==
  probe.fn = "contentString" =>
    LET m == probe.arg.msg
        out == runs[1]
        first == <<"see", "Files: ", "cc", "joined the channel">>
        on == <<m.text # <<>>, m.files # <<>>, m.blocks # <<>>, m.subtype = "channel_join">>
        n == Cardinality({k \in 1..4 : on[k]})
        seps == {i \in 1..Len(out) : out[i] = BlankLine}
    IN /\ n = 0 <=> out = <<>>
       /\ Cardinality(seps) = (IF n = 0 THEN 0 ELSE n - 1)
       /\ \A i \in seps : 1 < i /\ i < Len(out) /\ out[i + 1] # BlankLine
       /\ \A k \in 1..4 : IF on[k] THEN StartsPart(out, first[k]) ELSE PosOf(out, first[k]) = 0
       /\ \A k \in 1..4 : \A l \in 1..4 :
            (on[k] /\ on[l] /\ k < l) => PosOf(out, first[k]) < PosOf(out, first[l])

C27_Witness ==
  /\ probe.fn = "contentString"
  /\ probe.arg.msg.text # <<>> /\ Len(probe.arg.msg.files) = 2
  /\ probe.arg.msg.blocks # <<>> /\ probe.arg.msg.subtype = "channel_join"
  /\ Cardinality({i \in 1..Len(runs[1]) : runs[1][i] = BlankLine}) = 3


\* C28: the synthetic text of a subtype ("joined the channel" and the like)
\* is part of a message's content only when the message produced no other
\* content: no primary text, no files part, no block part.
C28_SubtypeTextOnlyAsLastResort ==
  probe.fn = "extractMessageContent" =>
    LET m == probe.arg.msg
        synthetic == {runs[1][p] : p \in 1..Len(runs[1])} \cap Range(SubtypeParts(m))
    IN synthetic # {} => Len(runs[1]) = 1


\* the rendering of a mention the claim gives
ClaimedMention(map, id) ==
  IF id \in DOMAIN map /\ map[id] \notin {"", "Unknown User"} THEN "@" \o map[id] ELSE "@unknown"
ClaimedText(toks, map) ==
  [i \in 1..Len(toks) |->
     IF toks[i].kind = "mention" THEN ClaimedMention(map, toks[i].v) ELSE cleanText(toks)[i].v]

\* C29: in the content of an enriched message every mention token of the
\* primary text is replaced by "@" and the resolved display name of its
\* identifier, or by "@unknown" when the identifier is absent from the map or
\* resolved only to the failure sentinel.
C29_MentionsRendered ==
  \A i \in 1..Len(enrichedMessages) :
    apiMessages[i].text # <<>> =>
      enrichedMessages[i].content[1] = ClaimedText(apiMessages[i].text, userMap)


\* the lines the claim gives for the messages of a document
RECURSIVE ClaimedReplyLines(_)
ClaimedReplyLines(replies) ==
  IF replies = <<>> THEN <<>>
  ELSE <<[k |-> "reply", bullets |-> <<Head(replies).sender>>, content |-> Head(replies).content]>>
       \o ClaimedReplyLines(Tail(replies))
RECURSIVE ClaimedLines(_, _)
ClaimedLines(messages, cfg) ==
  IF messages = <<>> THEN <<>>
  ELSE LET m == Head(messages) IN
       <<[k |-> "sender", sender |-> m.sender,
          time |-> IF cfg.includeTimestamps THEN formatTimestamp(UnixStamp(m.timestamp)) ELSE <<>>],
         [k |-> "content", content |-> m.content]>>
       \o (IF cfg.includeThreadReplies /\ m.threadReplies # <<>>
           THEN <<[k |-> "label"]>> \o ClaimedReplyLines(m.threadReplies) ELSE <<>>)
       \o ClaimedLines(Tail(messages), cfg)

\* C30: in the serialized document a message with replies is followed by the
\* "Thread Replies:" label and exactly one bulleted line per reply when
\* thread display is enabled, and by neither when it is disabled or the
\* message has no replies; the sender is followed by a timestamp exactly
\* when timestamps are enabled.
C30_OneLinePerReply ==
  probe.fn = "serialize" =>
    LET arg == probe.arg
        messages == SortByTs(FilterContent(enrich(arg.msgs, arg.userMap, arg.cfg, arg.outcome)))
    IN Tail(runs[1]) = ClaimedLines(messages, arg.cfg)


\* the stage a position of the export belongs to, in the order of the pipeline
StageOf(p) ==
  CASE p = "idle" -> 0
    [] p = "api_start" -> 1
    [] p \in {"chan_start"} -> 2
    [] p \in {"history", "history_return"} -> 3
    [] p = "collect" -> 4
    [] p \in {"resolve", "lookup"} -> 5
    [] p = "enrich" -> 6
    [] p = "finish" -> 7
    [] p \in {"dom_start", "dom_scroll", "dom_extract", "dom_download"} -> 8
    [] OTHER -> 9

\* C31: within one export the stages run in the order channel determination,
\* history fetching, identity resolution, enrichment, serialization,
\* download, and none is re-entered: a history request is issued only in the
\* history stage, a user lookup only in the resolution stage, and the result
\* is serialized and a download requested only once, at the end.
C31_StagesInOrder ==
  [][/\ StageOf(pc') >= StageOf(pc)
     /\ histRequests' > histRequests => (pc = "history" /\ lookupLog = <<>> /\ enrichedMessages = <<>>)
     /\ lookupLog' # lookupLog => (pc \in {"resolve", "lookup"} /\ enrichedMessages = <<>>)
     /\ enrichedMessages' # enrichedMessages => (pc = "enrich" /\ result = NoResult)
     /\ result' # result => (result = NoResult /\ pc \in {"history_return", "finish"} /\ pc' = "done")
     /\ (Len(downloads') > Len(downloads) /\ downloads'[Len(downloads')].source = "API") =>
          (pc = "finish" /\ downloads = <<>> /\ Len(enrichedMessages) = Len(apiMessages))]_vars

C31_Witness ==
  /\ pc = "done" /\ req = "EXPORT_MESSAGES" /\ Len(downloads) = 1 /\ downloads[1].source = "API"
  /\ Len(apiMessages) = 3 /\ Len(UserLookups) = 3 /\ Len(threadLog) = 4

\* ------------------------------------------- one export request, with fairness
\* The steps of an export that wait on something outside the script: a network
\* call, a timer of the scroll loop, the sink's answer.  Each of them is
\* awaited, and each wait ends (with an answer or with an error).
ExportAwaited ==
  \/ ApiStart
  \/ ChannelStart
  \/ \E o \in HistoryOutcomes : HistoryAttempt(o)
  \/ HistoryReturn
  \/ CollectStep
  \/ ResolveMembers
  \/ \E o \in LookupOutcomes : LookupUser(o)
  \/ EnrichStep
  \/ DomStart
  \/ DomScrollStep
  \/ DomExtract
  \/ \E o \in DomSinkOutcomes : DomSinkReply(o)

AnswerNext ==
  \/ LoadUtils
  \/ ReceiveExportMessages
  \/ ExportAwaited
  \/ Finish
  \/ \E ok \in BOOLEAN : SinkReply(ok)

\* the configuration plays no part in whether the request is answered
AnswerInit ==
  /\ Init
  /\ config = [includeThreadReplies |-> TRUE, includeTimestamps |-> TRUE]

\* Finish is the synchronous tail of exportChannelViaAPI: it is enabled
\* whenever the export stands at "finish", so its weak fairness is the
\* statement that the export does not stay there.
AnswerSpec ==
  /\ AnswerInit /\ [][AnswerNext]_vars
  /\ WF_vars(ExportAwaited)
  /\ []<>(pc # "finish")

\* C32: the auto-scroll loop of the DOM fallback terminates: an attempt is
\* made only while fewer than 20 were made, an attempt that changes the
\* element count sets the consecutive counter to zero and one that does not
\* adds one to it, the loop is left exactly when the counter reaches 3 or the
\* 20th attempt was made, and a loop that was entered is eventually left.
C32_ScrollTerminates ==
  /\ [][(pc = "dom_scroll" /\ utils' = utils) =>
          /\ scrollI < MaxScrolls
          /\ noNewMessagesCount < MaxNoNew
          /\ noNewMessagesCount' =
               IF previousCount' # previousCount THEN 0 ELSE noNewMessagesCount + 1
          /\ pc' = (IF noNewMessagesCount' = MaxNoNew \/ scrollI' = MaxScrolls
                    THEN "dom_extract" ELSE "dom_scroll")
          /\ scrollI' = (IF noNewMessagesCount' = MaxNoNew THEN scrollI ELSE scrollI + 1)]_vars
  /\ (pc = "dom_scroll") ~> (pc = "dom_extract")

\* the loop was left at the third silent attempt in a row, after a reset
C32_Witness ==
  /\ pc = "dom_extract" /\ noNewMessagesCount = MaxNoNew
  /\ scrollI = 5 /\ previousCount = 2

\* the thread elements below a message element
ThreadElements(element) ==
  SelectSeq(Descendants(element.children),
            LAMBDA d : \E k \in 1..Len(threadSelectors) : Matches(d, threadSelectors[k]))

\* the reply entries of an extracted message, at every depth
RECURSIVE ReplyEntries(_)
ReplyEntries(replies) ==
  IF replies = <<>> THEN 0
  ELSE 1 + ReplyEntries(Head(replies).threadReplies) + ReplyEntries(Tail(replies))

\* C33: replies are flat in the result of either path: an enriched reply of
\* the API path has no reply list, a reply the DOM extractor returns carries
\* an empty reply list, and the extractor returns at most one reply entry
\* for each thread element below the message element.
C33_RepliesFlat ==
  /\ probe.fn = "serialize" =>
       \A m \in Range(enrich(probe.arg.msgs, probe.arg.userMap, probe.arg.cfg, probe.arg.outcome)) :
         \A r \in Range(m.threadReplies) : "threadReplies" \notin DOMAIN r
  /\ (probe.fn = "extractMessageData" /\ runs[1] # NullData) =>
       /\ \A r \in Range(runs[1].threadReplies) : r.threadReplies = <<>>
       /\ ReplyEntries(runs[1].threadReplies) <= Len(ThreadElements(probe.arg))

\* ------------------------------------------------ the start of an export
\* The export from the page the user is on up to the first network request
\* of the API path, and the DOM path on a page without a scroll container.
StartNext ==
  \/ Navigate
  \/ LoadUtils
  \/ ReceiveExportMessages
  \/ ApiStart
  \/ ChannelStart
  \/ DomStart
  \/ DomExtract
  \/ \E o \in DomSinkOutcomes : DomSinkReply(o)

\* the configuration plays no part in the channel determination
StartInit ==
  /\ Init
  /\ config = [includeThreadReplies |-> TRUE, includeTimestamps |-> TRUE]

StartSpec == StartInit /\ [][StartNext]_vars

\* the order of priority the patterns are said to have
ClaimedOrder == <<"messages", "archives", "channels", "client">>
PatternOf(key) == CHOOSE p \in Range(urlPatterns) : p.key = key

\* the patterns that match a path, by their position in that order
MatchingPatterns(path) ==
  {k \in 1..Len(ClaimedOrder) : \E i \in 1..Len(path) : MatchesAt(path, PatternOf(ClaimedOrder[k]), i)}

\* the capture of the first pattern of that order that matches, "" for none
ClaimedChannelId(path) ==
  IF MatchingPatterns(path) = {} THEN ""
  ELSE LET k == CHOOSE k \in MatchingPatterns(path) : \A l \in MatchingPatterns(path) : k <= l
       IN MatchPattern(path, PatternOf(ClaimedOrder[k]))

NoRequestYet == histRequests = 0 /\ threadLog = <<>> /\ lookupLog = <<>>

\* C34: getCurrentChannelId returns the capture of the first of the patterns
\* messages, archives, channels, client that matches the path, and null when
\* none does; with a null result the API path ends in the channel error
\* before any request is issued; the DOM path runs without a channel
\* identifier.
C34_ChannelDetermination ==
  /\ probe.fn = "pathname" => urlChannel = ClaimedChannelId(probe.arg)
  /\ (urlChannel = "" /\ pc \notin {"idle", "api_start"} /\ apiError # TypeErrorMsg) =>
       (pc = "done" /\ apiError = NoChannelMsg /\ NoRequestYet)
  /\ pc \in {"dom_start", "dom_scroll", "dom_extract", "dom_download"} => channelId = ""
  /\ (downloads # <<>> /\ downloads[1].source = "DOM") => channelId = ""

\* a path that the archives and the messages pattern both match, and the
\* export of it past the channel determination
C34_Witness ==
  /\ probe.fn = "pathname" /\ probe.arg = <<"archives", "messages", "C1">>
  /\ channelId = "C1" /\ pc = "history"

\* C35: within one export the token, the channel and the lower time bound
\* are set once, at the start, and never modified afterwards; every history,
\* thread-replies and user-lookup request carries that token, and every
\* history and thread-replies request that channel and that bound.
C35_SameCredentials ==
  [][/\ session' # session => (pc = "chan_start" /\ session = NoSession)
     /\ channelId' # channelId => (pc = "idle" /\ channelId = "") \/ pc = "api_start"
     /\ histRequests' > histRequests =>
          LET e == pageLog'[Len(pageLog')] IN
          /\ session = [token |-> TeamToken, oldest |-> oldestUnix]
          /\ <<e.token, e.channel, e.oldest>> = <<session.token, channelId, session.oldest>>
     /\ Len(threadLog') > Len(threadLog) =>
          LET p == threadLog'[Len(threadLog')].params IN
          <<p.token, p.channel, p.oldest>> = <<session.token, channelId, session.oldest>>
     /\ (Len(lookupLog') > Len(lookupLog) /\ lookupLog'[Len(lookupLog')].kind = "user") =>
          lookupLog'[Len(lookupLog')].token = session.token]_vars

\* a batch export of another channel than the one the page shows, with
\* history, thread-replies and user-lookup requests issued
C35_Witness ==
  /\ pc = "done" /\ req = "BATCH_EXPORT_CHANNEL" /\ urlChannel = "C1" /\ channelId = "C2"
  /\ Len(apiMessages) >= 2 /\ Len(threadLog) >= 2
  /\ \E k \in 1..Len(lookupLog) : lookupLog[k].kind = "user"

\* the thread-replies requests issued in one pass for one message
CallsFor(m, pass) == {k \in 1..Len(threadLog) : threadLog[k].for = m.ts /\ threadLog[k].pass = pass}

\* C36: once the enrichment pass is over, the thread-replies endpoint was
\* called for each eligible parent exactly twice, once in the collection pass
\* before the resolution and once in the enrichment pass after it, and for no
\* other message; the replies of an enriched parent are those of the second
\* call, whatever the first call returned.
C36_TwoCallsPerParent ==
  /\ \A k \in 1..Len(threadLog) : \A l \in 1..Len(threadLog) :
       (threadLog[k].pass = 2 /\ threadLog[l].pass = 1) => (l < k /\ lookupLog # <<>>)
  /\ lookupLog # <<>> =>
       \A m \in Range(apiMessages) :
         Cardinality(CallsFor(m, 1)) = (IF WantsThread(config, m) THEN 1 ELSE 0)
  /\ \A i \in 1..Len(enrichedMessages) :
       LET m == apiMessages[i] IN
       /\ Cardinality(CallsFor(m, 2)) = (IF WantsThread(config, m) THEN 1 ELSE 0)
       /\ \A k \in CallsFor(m, 1) \cup CallsFor(m, 2) : threadLog[k].requests = 1
       /\ enrichedMessages[i].threadReplies =
            (IF ThreadFetched(m, 2)
             THEN EnrichReplies(ThreadOf(m.thread_ts), m.thread_ts, userMap) ELSE <<>>)
  /\ Len(threadLog) <= 2 * Len(apiMessages)

\* the first call for a parent failed and the second did not: its replies
\* are in the result
C36_Witness ==
  /\ pc = "done" /\ result.messageCount >= 2
  /\ \E i \in 1..Len(enrichedMessages) :
       /\ apiMessages[i] = mB /\ ThreadFailed(mB, 1) /\ ThreadFetched(mB, 2)
       /\ enrichedMessages[i].threadReplies # <<>>
  /\ Len(threadLog) >= 2

\* C37: the retry counter of the history fetch stays within 0..3; it counts
\* the failed requests of the current page, rate-limit responses and other
\* failures alike, and is 0 when a new page starts, whatever happened on the
\* pages before; the delay slept before the k-th retry is 2^k times the base
\* of the failure's kind, and the rate-limit base is twice the other.
C37_RetryCounter ==
  /\ retryCount \in 0..MaxAttempts
  /\ (pc = "history" /\ pageLog # <<>>) =>
       IF pageLog[Len(pageLog)].outcome = "ok"
       THEN retryCount = 0 /\ pageLog[1].page = pageCount - 1
       ELSE /\ retryCount = Len(pageLog) /\ FailedOnPage = 1..Len(pageLog)
            /\ pageLog[1].page = pageCount
  /\ \A i \in 1..Len(pageLog) :
       (pageLog[i].outcome # "ok" /\ i < MaxAttempts) =>
         pageLog[i].wait = (IF pageLog[i].outcome = "ratelimited" THEN 2 ELSE 1) * Pow2(i) * ErrorBase

\* the second page used all three attempts after the first page had failed
\* twice, with failures of both kinds on each
C37_Witness ==
  /\ histFailed /\ histFailures = 5 /\ Len(pageLog) = 3 /\ pageLog[1].page = 2
  /\ pageLog[1].outcome = "ratelimited" /\ pageLog[2].outcome = "network_error"
  /\ pageLog[1].wait = 4000 /\ pageLog[2].wait = 4000

\* the step ends an export that has nothing to write: the fetch returned no
\* message, or no enriched message has content, or the page shows no message
EndsWithNothing ==
  \/ pc = "history_return" /\ allMessages = <<>>
  \/ pc = "finish" /\ \A i \in 1..Len(enrichedMessages) : ~HasContent(enrichedMessages[i].content)
  \/ pc = "dom_extract" /\ pc' = "done" /\ domMessages' = <<>>

\* C38: an export that has nothing to write sends no DOWNLOAD_FILE request,
\* neither when it ends nor later, and answers the request with success=true.
C38_NothingToWrite ==
  /\ [][(EndsWithNothing /\ pc' # pc) =>
          /\ pc' = "done" /\ downloads' = <<>> /\ sinkResult' = "none"
          /\ Len(responses') = 1 /\ responses'[1].success]_vars
  /\ []((pc = "done" /\ (result.messageCount = 0 \/ (domMessages = <<>> /\ domError = "" /\ result = NoResult
                                                   /\ Len(responses) = 1 /\ responses[1].method = "DOM_FALLBACK")))
          => downloads = <<>>)

\* every message the fetch returned was dropped by the content filter
C38_Witness ==
  /\ pc = "done" /\ req = "EXPORT_MESSAGES" /\ apiMessages = <<mD>> /\ Len(enrichedMessages) = 1
  /\ result.messageCount = 0 /\ downloads = <<>> /\ responses = <<OkResponse("API")>>

\* the errors that end the API pipeline
FatalErrors == {NoTokenMsg, RetriesMsg, HistoryApiMsg, NetworkMsg, TypeErrorMsg}

\* C39: a BATCH_EXPORT_CHANNEL request sends no DOWNLOAD_FILE request and
\* takes no step of the DOM fallback; when the pipeline returns, it is
\* answered once with success=true, the result holding the message count and
\* the markdown text, and when the pipeline raises, once with success=false
\* and the message of the error.
C39_BatchAnswer ==
  req = "BATCH_EXPORT_CHANNEL" =>
    /\ downloads = <<>> /\ sinkResult = "none"
    /\ pc \notin {"api_start", "dom_start", "dom_scroll", "dom_extract", "dom_download"}
    /\ domMessages = <<>> /\ domError = "" /\ scrollI = 0
    /\ pc # "done" => (responses = <<>> /\ apiError = "" /\ result = NoResult)
    /\ pc = "done" =>
         IF apiError = ""
         THEN /\ responses = <<OkResponse("BATCH")>>
              /\ result.messageCount = Len(FilterContent(enrichedMessages))
              /\ result.markdown =
                   (IF apiMessages = <<>> THEN <<>>
                    ELSE convertToMarkdown(SortByTs(FilterContent(enrichedMessages)), ChannelName, config))
         ELSE /\ responses = <<FailResponse(apiError)>> /\ apiError \in FatalErrors
              /\ result = NoResult

\* a batch export that was answered with a document of two messages
C39_Witness ==
  /\ req = "BATCH_EXPORT_CHANNEL" /\ pc = "done" /\ responses = <<OkResponse("BATCH")>>
  /\ result.messageCount = 2 /\ Len(apiMessages) = 3 /\ Len(threadLog) = 4

\* C40: an EXPORT_MESSAGES request is eventually answered and is answered
\* exactly once, on each of its paths (API success, API failure, fallback
\* success, fallback failure), given that every awaited call and timer
\* completes and that the history endpoint stops reporting further pages.
C40_AnsweredOnce ==
  /\ [](Len(responses) <= 1)
  /\ []((req = "EXPORT_MESSAGES" /\ pc # "done") => responses = <<>>)
  /\ [](pc = "done" => Len(responses) = 1)
  /\ (req = "EXPORT_MESSAGES") ~> (pc = "done" /\ Len(responses) = 1)

\* the answer of an export whose API path and DOM fallback both failed
C40_Witness ==
  /\ req = "EXPORT_MESSAGES" /\ pc = "done" /\ Len(responses) = 1
  /\ ~responses[1].success /\ apiError # "" /\ domError = DownloadMsg

====
